---- MODULE Spec2Model ----
(***************************************************************************)
(* Verification model of the tiangong-ai-langgraph-server pipelines.       *)
(*                                                                         *)
(*   SpecSched : the bounded admission loops of runSortWorkflow            *)
(*               (multi_agents/mfa.ts) and enrichArticlesWithSearchResults *)
(*               (multi_agents/mfa_search.ts).                             *)
(*   SpecCycle : the relevance / extract / evaluate graph of               *)
(*               sort_agent.ts (checkRelevance, boundaryExtract,           *)
(*               evaluatePolicyRecommendations and its two routers).       *)
(*   SpecRetry : batchExtractArticles and extractArticleInfo of            *)
(*               multi_agents/extract.ts.                                  *)
(*   SpecKg    : the queue of main in multi_agents/kg_textbooks.ts.        *)
(*   SpecBatch : prepareBatches of mfa_search_agent.ts.                    *)
(*   SpecMerge : the merge agent graph (processInput,                      *)
(*               filterNonChineseLocations, mergeBySource, addSpatialTags, *)
(*               formatOutput).                                            *)
(*   SpecPipe  : searchExpandAndMerge, mergeBoundaryData and               *)
(*               mergeInBatches of multi_agents/mfa.ts.                    *)
(*   SpecElle  : the answer / evaluate graph of elle_agent.ts.             *)
(*   SpecEval  : main of multi_agents/elle_evaluate.ts.                    *)
(*                                                                         *)
(* Every specification gives all variables a value; the variables of the   *)
(* parts it does not run stay at their idle values.                        *)
(***************************************************************************)
EXTENDS Integers, Sequences, FiniteSets, TLC

VARIABLES
  \* ---- admission loop (mfa.ts 491-527, mfa_search.ts 142-175)
  wf,               \* "sort" | "search" | "idle": which workflow runs
  numArticles,      \* articles.length
  maxConcurrent,    \* the concurrency limit
  index,            \* next article to admit (0-based, as in the code)
  activePromises,   \* the loop's in-flight counter
  promises,         \* relevancePromises / searchPromises: article ids, push order
  pstate,           \* article id -> "unstarted" | "pending" | "fulfilled"
  pvalue,           \* article id -> value its promise was fulfilled with
  searchResults,    \* article id -> article.searchResults ("unset"|"empty"|"some")
  lastSettled,      \* id of the article whose promise settled last (0: none yet)
  reversed,         \* every promise so far settled before all earlier-pushed ones
  schedPc,          \* "loop" | "sleeping" | "awaitAll" | "done" | "idle"
  allResults,       \* allRelevanceResults / allResults after Promise.all
  \* ---- relevance / extract / evaluate graph (sort_agent.ts 491-907)
  content,          \* input channel: shape of the submitted content
  isRelevant,       \* channel isRelevant
  boundaryItem,     \* channel boundaryItem (NullItem: null)
  cycleCount,       \* channel cycleCount
  evaluationResult, \* channel evaluationResult (NullVerdict: null)
  feedbackSuggestions, \* channel feedbackSuggestions
  sourceInfo,       \* channel sourceInfo
  rawContent,       \* channel rawContent
  messages,         \* channel messages
  cyNode,           \* node the graph runs next; "__end__" when finished
  classifyOutcome,  \* what the relevance call did ("none" before it ran)
  extractLog,       \* one entry per boundaryExtract run
  verdictLog,       \* one entry per evaluatePolicyRecommendations run
  nodeLog,          \* the nodes run so far, in order
  \* ---- batchExtractArticles (multi_agents/extract.ts 191-266)
  rtLen,            \* articles.length
  rtServerError,    \* article id -> its searchResults hold the server-error marker
  rtI,              \* the for loop's i (0-based start of the current sub-batch)
  rtMain,           \* "for" | "awaitBatch" | "returned" | "idle"
  rtPc,             \* article id -> "waiting" | "calling" | "done"
  rtRetries,        \* article id -> retries of its wrapper
  rtAttempts,       \* article id -> calls of extractArticleInfo made for it
  rtAllThrew,       \* article id -> every collaborator call for it so far threw
  rtMalformed,      \* article id -> a collaborator call for it answered malformed
  rtResult,         \* article id -> tag of the record its promise resolved with
  results,          \* the returned list: <<id, tag>> records in push order
  \* ---- knowledge-graph queue (multi_agents/kg_textbooks.ts 21-31)
  data,             \* data.length
  tasks,            \* item id -> "none" | "queued" | "running" | "fulfilled" | "rejected"
  kgMain,           \* "main" | "awaitAll" | "completed" | "rejected" | "idle"
  \* ---- prepareBatches (mfa_search_agent.ts 269-336)
  retrievedContents, \* the shape of every tool message's content, in order
  contentBatches,   \* channel contentBatches
  currentBatchIndex, \* channel currentBatchIndex
  batchNode,        \* node the graph runs next; "__end__" | "idle"
  allBoundaryResults, \* channel allBoundaryResults
  processingComplete, \* channel processingComplete
  processLog,       \* one entry per processBatch run
  mergeRuns,        \* runs of mergeResults so far
  finalMessage,     \* the content of the message mergeResults appended
  \* ---- merge agent graph (part_000 23-373)
  mgContent,        \* the input messages' content: "array" | "notJson" ("none": idle)
  mgInput,          \* the source field of every item of the submitted array
  boundaryItems,    \* channel boundaryItems
  filteredItems,    \* channel filteredItems
  mergedResults,    \* channel mergedResults
  taggedResults,    \* channel taggedResults
  mgOutput,         \* the records serialised into the final assistant message
  mergeCalls,       \* the calls of the merge chain made so far, in order
  tagCalls,         \* what the tag chain did for every merged item, in order
  mgThrewIn,        \* the node an exception escaped from ("none": no exception)
  mgNode,           \* node the graph runs next; "__end__" | "failed" | "idle"
  \* ---- searchExpandAndMerge (multi_agents/mfa.ts 112-311)
  searchTasks,      \* journal -> "none" | "queued" | "running" | "success" | "failure"
  pipePc,           \* "start" | "awaitSearch" | "mergeBoundaryData" |
                    \* "mergeInBatches" | "returned" | "idle"
  allBoundaryData,  \* the boundary items collected from the searches
  mbBatches,        \* batches of mergeInBatches
  batchStarted,     \* batches whose turn of the loop has begun
  batchSettled,     \* batches whose turn of the loop is over
  mergeInFlight,    \* calls of mergeAgentGraph.invoke not yet settled
  mergeInputs,      \* the items sent with every call of the merge graph
  mergedBatches,    \* mergedBatches of mergeInBatches
  parsedResults,    \* parsedResults of the returned value
  searchFound,      \* journal -> the boundary items its search result holds
  foundOrder,       \* the searches that found items, in the order they settled
  mergeLog,         \* how every call of the merge graph ended, in call order
  \* ---- the answer / evaluate graph (elle_agent.ts 29-38, 92-191)
  elleMessages,     \* channel messages: the kind of every message
  answers,          \* channel answers
  suggestion,       \* channel suggestion
  score,            \* channel score (NoScore: not written yet)
  scoreLog,         \* the scores the evaluator returned, in order
  elleNode,         \* node the graph runs next; "__end__" | "failed" | "idle"
  \* ---- main of multi_agents/elle_evaluate.ts (119-149)
  evalData,         \* data.length
  evalTasks,        \* item -> "none" | "queued" | "running" | "fulfilled" | "rejected"
  evalResults,      \* results: the items whose evaluation was pushed
  evalSettled,      \* the items in the order their evaluations settled
  outFile,          \* the output file
  evalMain          \* "main" | "awaitAll" | "written" | "rejected" | "idle"

schedVars == <<wf, numArticles, maxConcurrent, index, activePromises, promises,
               pstate, pvalue, searchResults, lastSettled, reversed, schedPc,
               allResults>>

cycleVars == <<content, isRelevant, boundaryItem, cycleCount, evaluationResult,
               feedbackSuggestions, sourceInfo, rawContent, messages, cyNode,
               classifyOutcome, extractLog, verdictLog, nodeLog>>

retryVars == <<rtLen, rtServerError, rtI, rtMain, rtPc, rtRetries, rtAttempts,
               rtAllThrew, rtMalformed, rtResult, results>>

kgVars == <<data, tasks, kgMain>>

batchVars == <<retrievedContents, contentBatches, currentBatchIndex, batchNode,
               allBoundaryResults, processingComplete, processLog, mergeRuns,
               finalMessage>>

mergeVars == <<mgContent, mgInput, boundaryItems, filteredItems, mergedResults,
               taggedResults, mgOutput, mergeCalls, tagCalls, mgThrewIn, mgNode>>

pipeVars == <<searchTasks, pipePc, allBoundaryData, mbBatches, batchStarted,
              batchSettled, mergeInFlight, mergeInputs, mergedBatches,
              parsedResults, searchFound, foundOrder, mergeLog>>

elleVars == <<elleMessages, answers, suggestion, score, scoreLog, elleNode>>

evalVars == <<evalData, evalTasks, evalResults, evalSettled, outFile, evalMain>>

vars == <<schedVars, cycleVars, retryVars, kgVars, batchVars, mergeVars, pipeVars, elleVars, evalVars>>

----------------------------------------------------------------------------
(* Bounds of the model *)

\* largest articles.length explored
MaxItems == 6
\* largest articles.length explored for batchExtractArticles
MaxArticles == 6
\* largest maxConcurrent argument explored for enrichArticlesWithSearchResults
MaxLimit == 3
\* largest data.length explored for the knowledge-graph queue
MaxTextbooks == 11
\* largest number of generateKG calls that throw in one run
MaxFailures == 2
\* largest number of tool messages explored for prepareBatches
MaxContents == 4
\* largest batch size for which split is examined
MaxBatchSize == 6
\* largest number of boundary items submitted to the merge agent graph
MaxMergeItems == 5
\* largest number of boundary items the searches of one run hold
MaxBoundaryItems == 20
\* largest number of searches that fail in one run
MaxSearchFailures == 1

\* const maxConcurrent = 5 of runSortWorkflow
SortMaxConcurrent == 5

Items == 1..MaxItems

----------------------------------------------------------------------------
(* Admission loop *)

NoValue == [item |-> 0, flag |-> FALSE]

\* checkArticleRelevance: every failure is caught inside and becomes false
SortGraphOutcomes == {"relevant", "notRelevant", "undefined", "throws"}

checkArticleRelevance(o) == o = "relevant"

\* searchArticleContent: a list of contents, possibly empty, or a rejection
SearchOutcomes == {"some", "empty", "throws"}

WorkerOutcomes(w) == IF w = "sort" THEN SortGraphOutcomes ELSE SearchOutcomes

\* while (index < articles.length || activePromises > 0)
LoopCond == index < numArticles \/ activePromises > 0

AdmitGuardNoLimit == index < numArticles

\* if (index < articles.length && activePromises < maxConcurrent)
AdmitGuard == index < numArticles /\ activePromises < maxConcurrent

SettledValueLateIndex(w, i, o) ==
  IF w = "sort"
    THEN [item |-> index, flag |-> checkArticleRelevance(o)]
    ELSE [item |-> index, flag |-> (o = "some")]

\* the value of the promise built by .then(...).catch(...)
SettledValue(w, i, o) ==
  IF w = "sort"
    THEN [item |-> i, flag |-> checkArticleRelevance(o)]
    ELSE [item |-> i, flag |-> (o = "some")]

SettledSearchResultsAnyWorkflow(w, i, o) ==
  IF o # "throws" THEN o ELSE searchResults[i]

\* article.searchResults = searchResults, only in the search workflow's .then
SettledSearchResults(w, i, o) ==
  IF w = "search" /\ o # "throws" THEN o ELSE searchResults[i]

\* await Promise.all(ps): the values in the order of the promise array
PromiseAll(ps) == [k \in 1..Len(ps) |-> pvalue[ps[k]]]

InFlight == {i \in Items : pstate[i] = "pending"}

SchedIdle ==
  /\ wf = "idle" /\ numArticles = 0 /\ maxConcurrent = 0
  /\ index = 0 /\ activePromises = 0 /\ promises = <<>>
  /\ pstate = [i \in Items |-> "unstarted"]
  /\ pvalue = [i \in Items |-> NoValue]
  /\ searchResults = [i \in Items |-> "unset"]
  /\ lastSettled = 0 /\ reversed = TRUE
  /\ schedPc = "idle" /\ allResults = <<>>

AdmittedItemPrevious(idx) == IF idx = 0 THEN 1 ELSE idx

\* const article = articles[index]: the id of the item at 0-based position idx
AdmittedItem(idx) == idx + 1

\* the if-branch: start the task for articles[index], push its promise
Admit ==
  /\ schedPc = "loop" /\ LoopCond /\ AdmitGuard
  /\ pstate' = [pstate EXCEPT ![AdmittedItem(index)] = "pending"]
  /\ promises' = Append(promises, AdmittedItem(index))
  /\ activePromises' = activePromises + 1
  /\ index' = index + 1
  /\ UNCHANGED <<wf, numArticles, maxConcurrent, pvalue, searchResults,
                 lastSettled, reversed, schedPc, allResults>>
  /\ UNCHANGED <<cycleVars, retryVars, kgVars, batchVars, mergeVars, pipeVars, elleVars, evalVars>>

\* the else-branch: await new Promise(resolve => setTimeout(resolve, 100))
Sleep ==
  /\ schedPc = "loop" /\ LoopCond /\ ~AdmitGuard
  /\ schedPc' = "sleeping"
  /\ UNCHANGED <<wf, numArticles, maxConcurrent, index, activePromises, promises,
                 pstate, pvalue, searchResults, lastSettled, reversed, allResults>>
  /\ UNCHANGED <<cycleVars, retryVars, kgVars, batchVars, mergeVars, pipeVars, elleVars, evalVars>>

\* the timer fires and the loop tests its condition again
Wake ==
  /\ schedPc = "sleeping"
  /\ schedPc' = "loop"
  /\ UNCHANGED <<wf, numArticles, maxConcurrent, index, activePromises, promises,
                 pstate, pvalue, searchResults, lastSettled, reversed, allResults>>
  /\ UNCHANGED <<cycleVars, retryVars, kgVars, batchVars, mergeVars, pipeVars, elleVars, evalVars>>

\* a worker settles while the loop is suspended; its .then / .catch callback
\* runs in the same turn of the event loop
Settle(i) ==
  /\ schedPc \in {"sleeping", "awaitAll"}
  /\ pstate[i] = "pending"
  /\ \E o \in WorkerOutcomes(wf) :
       /\ pvalue' = [pvalue EXCEPT ![i] = SettledValue(wf, i, o)]
       /\ searchResults' = [searchResults EXCEPT ![i] = SettledSearchResults(wf, i, o)]
  /\ pstate' = [pstate EXCEPT ![i] = "fulfilled"]
  /\ activePromises' = activePromises - 1
  /\ lastSettled' = i
  /\ reversed' = (reversed /\ (lastSettled = 0 \/ i < lastSettled))
  /\ UNCHANGED <<wf, numArticles, maxConcurrent, index, promises, schedPc, allResults>>
  /\ UNCHANGED <<cycleVars, retryVars, kgVars, batchVars, mergeVars, pipeVars, elleVars, evalVars>>

\* the while condition is false: the loop ends at await Promise.all(...)
ExitLoop ==
  /\ schedPc = "loop" /\ ~LoopCond
  /\ schedPc' = "awaitAll"
  /\ UNCHANGED <<wf, numArticles, maxConcurrent, index, activePromises, promises,
                 pstate, pvalue, searchResults, lastSettled, reversed, allResults>>
  /\ UNCHANGED <<cycleVars, retryVars, kgVars, batchVars, mergeVars, pipeVars, elleVars, evalVars>>

\* Promise.all resolves once every promise of the array is fulfilled
Collect ==
  /\ schedPc = "awaitAll"
  /\ \A k \in 1..Len(promises) : pstate[promises[k]] = "fulfilled"
  /\ allResults' = PromiseAll(promises)
  /\ schedPc' = "done"
  /\ UNCHANGED <<wf, numArticles, maxConcurrent, index, activePromises, promises,
                 pstate, pvalue, searchResults, lastSettled, reversed>>
  /\ UNCHANGED <<cycleVars, retryVars, kgVars, batchVars, mergeVars, pipeVars, elleVars, evalVars>>

NextSched ==
  \/ Admit
  \/ Sleep
  \/ Wake
  \/ \E i \in Items : Settle(i)
  \/ ExitLoop
  \/ Collect

----------------------------------------------------------------------------
(* Relevance / extract / evaluate graph *)

\* cycleCount >= 2 of decideRegenerate
maxCycles == 2

Last(q) == q[Len(q)]

\* shapes of the submitted content: no SOURCE header, "SOURCE: \n\n", a named
\* source; each with or without a "CONTENT: " marker
ContentKinds ==
  [source : {"absent", "empty", "named"}, marker : BOOLEAN]

\* content.match(/SOURCE: (.*?)\n\n/): the captured group, else the default
ParseSource(c) ==
  CASE c.source = "absent" -> "Unknown Source"
    [] c.source = "empty" -> ""
    [] OTHER -> "S1"

\* content.match(/CONTENT: ([\s\S]*)/): the captured group, else the content
ParseContent(c) == IF c.marker THEN "body" ELSE "whole"

NullItem == [kind |-> "null", source |-> "", recs |-> <<>>, gen |-> 0]

NullVerdict ==
  [kind |-> "null", isComplete |-> FALSE, score |-> 0,
   missingAspects |-> "", improvementSuggestions |-> <<>>]

\* scores are kept in tenths: 5 is 0.5
ToolVerdicts ==
  [kind : {"tool"}, isComplete : BOOLEAN, score : {2, 9},
   missingAspects : {"m"}, improvementSuggestions : {<<>>, <<"s1">>, <<"s2">>}]

NoRecommendationsVerdictComplete ==
  [kind |-> "default", isComplete |-> TRUE, score |-> 0,
   missingAspects |-> "No policy recommendations found",
   improvementSuggestions |-> <<"Extract policy recommendations from the text">>]

\* the verdict of evaluatePolicyRecommendations when there is nothing to evaluate
NoRecommendationsVerdict ==
  [kind |-> "default", isComplete |-> FALSE, score |-> 0,
   missingAspects |-> "No policy recommendations found",
   improvementSuggestions |-> <<"Extract policy recommendations from the text">>]

EvaluationFailureVerdictIncomplete(o) ==
  [kind |-> "default", isComplete |-> FALSE, score |-> 5,
   missingAspects |-> (IF o = "throws" THEN "Evaluation error" ELSE "Evaluation failed"),
   improvementSuggestions |-> <<>>]

\* the verdict when the evaluation call throws or returns no tool call
EvaluationFailureVerdict(o) ==
  [kind |-> "default", isComplete |-> TRUE, score |-> 5,
   missingAspects |-> (IF o = "throws" THEN "Evaluation error" ELSE "Evaluation failed"),
   improvementSuggestions |-> <<>>]

boundaryItemReducerKeepFirst(x, y) == IF x = NullItem THEN y ELSE x

\* reducer of boundaryItem: (_, y) => y
boundaryItemReducer(x, y) == y

\* reducer of feedbackSuggestions: (_, y) => y
feedbackSuggestionsReducer(x, y) == y

cycleCountReducerKeep(x, y) == y

\* reducer: (x, _) => x + 1
cycleCountReducer(x, y) == x + 1

\* what the relevance call can do: throw (a tool call whose confidence is
\* missing throws at toFixed), answer without a tool call, answer with a tool
\* call that carries no isRelevant, or answer with a verdict
ClassifyOutcomes == {"throws", "noToolCall", "noVerdict", "relevant", "notRelevant"}

checkRelevanceVerdictFailOpen(o) == o # "notRelevant"

\* isRelevant as checkRelevance returns it (an undefined isRelevant is falsy)
checkRelevanceVerdict(o) == o = "relevant"

decideRelevanceAlwaysExtract(rel) == "extract"

decideRelevance(rel) == IF rel THEN "extract" ELSE "end"

decideRegenerateOffByOne(ev, cc) ==
  IF ev.isComplete \/ cc > maxCycles THEN "end" ELSE "regenerate"

decideRegenerate(ev, cc) ==
  IF ev.isComplete \/ cc >= maxCycles THEN "end" ELSE "regenerate"

\* the conditional edges of the workflow
RelevanceEdge(r) == IF r = "extract" THEN "boundaryExtract" ELSE "__end__"

RegenerateEdge(r) == IF r = "regenerate" THEN "boundaryExtract" ELSE "__end__"

CycleIdle ==
  /\ content = [source |-> "absent", marker |-> FALSE]
  /\ isRelevant = FALSE /\ boundaryItem = NullItem /\ cycleCount = 0
  /\ evaluationResult = NullVerdict /\ feedbackSuggestions = <<>>
  /\ sourceInfo = "Unknown Source" /\ rawContent = "" /\ messages = <<>>
  /\ cyNode = "idle" /\ classifyOutcome = "none"
  /\ extractLog = <<>> /\ verdictLog = <<>> /\ nodeLog = <<>>

\* new AIMessage({ content: text })
TextMessage(text) == [text |-> text, json |-> NullItem]

\* new AIMessage({ content: JSON.stringify(validatedItem, null, 2) }): the
\* item can be read back from the content with JSON.parse
JsonMessage(item) == [text |-> "", json |-> item]

checkRelevance ==
  /\ cyNode = "checkRelevance"
  /\ \E o \in ClassifyOutcomes :
       /\ classifyOutcome' = o
       /\ isRelevant' = checkRelevanceVerdict(o)
       /\ IF o = "throws"
            THEN /\ UNCHANGED <<sourceInfo, rawContent>>
                 /\ messages' = Append(messages, TextMessage("Error checking relevance"))
            ELSE /\ sourceInfo' = ParseSource(content)
                 /\ rawContent' = ParseContent(content)
                 /\ messages' = Append(messages, TextMessage(
                      IF checkRelevanceVerdict(o) THEN "Relevant" ELSE "Not relevant"))
  /\ cyNode' = RelevanceEdge(decideRelevance(isRelevant'))
  /\ nodeLog' = Append(nodeLog, "checkRelevance")
  /\ UNCHANGED <<content, boundaryItem, cycleCount, evaluationResult,
                 feedbackSuggestions, extractLog, verdictLog>>
  /\ UNCHANGED <<schedVars, retryVars, kgVars, batchVars, mergeVars, pipeVars, elleVars, evalVars>>

\* what the extraction call can do: throw, answer without a tool call, answer
\* with arguments BoundaryItem.parse rejects, or with a valid item whose
\* policyRecommendations are empty or not
ExtractOutcomes == {"throws", "noToolCall", "invalid", "okEmpty", "okRecs"}

ExtractedItem(o, src, n) ==
  IF o \in {"okEmpty", "okRecs"}
    THEN [kind |-> "item", source |-> src,
          recs |-> (IF o = "okRecs" THEN <<"r">> ELSE <<>>), gen |-> n]
    ELSE NullItem

ExtractMessageTextOnly(o, item) ==
  IF o \in {"okEmpty", "okRecs"}
    THEN TextMessage("Extracted boundary information")
    ELSE TextMessage("Error extracting boundary information")

ExtractMessage(o, item) ==
  CASE o \in {"okEmpty", "okRecs"} -> JsonMessage(item)
    [] o = "noToolCall" -> TextMessage("Failed to extract boundary information")
    [] OTHER -> TextMessage("Error extracting boundary information")

boundaryExtract ==
  /\ cyNode = "boundaryExtract"
  /\ \E o \in ExtractOutcomes :
       /\ boundaryItem' = boundaryItemReducer(boundaryItem,
            ExtractedItem(o, sourceInfo, Len(extractLog) + 1))
       /\ messages' = Append(messages, ExtractMessage(o,
            ExtractedItem(o, sourceInfo, Len(extractLog) + 1)))
       /\ extractLog' = Append(extractLog,
            [outcome |-> o, feedback |-> feedbackSuggestions,
             item |-> ExtractedItem(o, sourceInfo, Len(extractLog) + 1)])
  /\ cycleCount' = cycleCountReducer(cycleCount, cycleCount)
  /\ cyNode' = "evaluatePolicyRecommendations"
  /\ nodeLog' = Append(nodeLog, "boundaryExtract")
  /\ UNCHANGED <<content, isRelevant, evaluationResult, feedbackSuggestions,
                 sourceInfo, rawContent, classifyOutcome, verdictLog>>
  /\ UNCHANGED <<schedVars, retryVars, kgVars, batchVars, mergeVars, pipeVars, elleVars, evalVars>>

\* what the evaluation call can do: throw (a tool call whose score is missing
\* throws at toFixed), answer without a tool call, or answer with a verdict
EvaluateOutcomes == {"throws", "noToolCall", "tool"}

evaluatePolicyRecommendations ==
  /\ cyNode = "evaluatePolicyRecommendations"
  /\ IF boundaryItem = NullItem \/ boundaryItem.recs = <<>>
       THEN /\ evaluationResult' = NoRecommendationsVerdict
            /\ verdictLog' = Append(verdictLog,
                 [by |-> "noRecs", isComplete |-> NoRecommendationsVerdict.isComplete,
                  suggestions |-> NoRecommendationsVerdict.improvementSuggestions])
            /\ UNCHANGED feedbackSuggestions
       ELSE \E o \in EvaluateOutcomes :
              IF o = "tool"
                THEN \E v \in ToolVerdicts :
                       /\ evaluationResult' = v
                       /\ feedbackSuggestions' = feedbackSuggestionsReducer(
                            feedbackSuggestions, v.improvementSuggestions)
                       /\ verdictLog' = Append(verdictLog,
                            [by |-> "tool", isComplete |-> v.isComplete,
                             suggestions |-> v.improvementSuggestions])
                ELSE /\ evaluationResult' = EvaluationFailureVerdict(o)
                     /\ verdictLog' = Append(verdictLog,
                          [by |-> o, isComplete |-> EvaluationFailureVerdict(o).isComplete,
                           suggestions |-> EvaluationFailureVerdict(o).improvementSuggestions])
                     /\ UNCHANGED feedbackSuggestions
  /\ cyNode' = RegenerateEdge(decideRegenerate(evaluationResult', cycleCount))
  /\ nodeLog' = Append(nodeLog, "evaluatePolicyRecommendations")
  /\ UNCHANGED <<content, isRelevant, boundaryItem, cycleCount, sourceInfo,
                 rawContent, messages, classifyOutcome, extractLog>>
  /\ UNCHANGED <<schedVars, retryVars, kgVars, batchVars, mergeVars, pipeVars, elleVars, evalVars>>

NextCycle ==
  \/ checkRelevance
  \/ boundaryExtract
  \/ evaluatePolicyRecommendations

----------------------------------------------------------------------------
(* batchExtractArticles and extractArticleInfo *)

\* const PROCESSING_BATCH_SIZE = 5
PROCESSING_BATCH_SIZE == 5

\* const MAX_RETRIES = 3
MAX_RETRIES == 3

Articles == 1..MaxArticles

Min(a, b) == IF a < b THEN a ELSE b

\* what the remote extract graph can do for one call: threads.create or invoke
\* throws (service unavailable, timeout), invoke returns nothing, an output
\* list that is empty, an output list whose first entry is not an object (reading
\* its fields raises a TypeError), or a usable one
RemoteOutcomes == {"throws", "nullResult", "emptyOutput", "malformedOutput", "output"}

\* the same function without its try/catch: an error leaves the function
extractArticleInfoRethrows(o) ==
  CASE o = "throws" -> [threw |-> TRUE, tag |-> "none"]
    [] o = "nullResult" -> [threw |-> FALSE, tag |-> "No result returned"]
    [] o = "emptyOutput" -> [threw |-> FALSE, tag |-> "Error during processing"]
    [] o = "malformedOutput" -> [threw |-> TRUE, tag |-> "none"]
    [] OTHER -> [threw |-> FALSE, tag |-> "extracted"]

\* extractArticleInfo: its whole body is inside try/catch, so it never throws
extractArticleInfo(o) ==
  CASE o = "throws" -> [threw |-> FALSE, tag |-> "Error during processing"]
    [] o = "nullResult" -> [threw |-> FALSE, tag |-> "No result returned"]
    [] o = "emptyOutput" -> [threw |-> FALSE, tag |-> "Error during processing"]
    [] o = "malformedOutput" -> [threw |-> FALSE, tag |-> "Error during processing"]
    [] OTHER -> [threw |-> FALSE, tag |-> "extracted"]

\* the loop condition with the success test left out
KeepTryingUntilCeiling(success, retries) == retries < MAX_RETRIES

\* while (!success && retries < MAX_RETRIES)
KeepTrying(success, retries) == ~success /\ retries < MAX_RETRIES

BatchOfUnsliced(i) == (i + 1)..rtLen

\* articles.slice(i, i + PROCESSING_BATCH_SIZE), as article ids
BatchOf(i) == (i + 1)..Min(i + PROCESSING_BATCH_SIZE, rtLen)

\* the ids of a set of consecutive articles, in input order
InOrder(S) ==
  IF S = {} THEN <<>>
  ELSE LET lo == CHOOSE x \in S : \A y \in S : x <= y
       IN [k \in 1..Cardinality(S) |-> lo + k - 1]

RetryIdle ==
  /\ rtLen = 0 /\ rtServerError = [a \in Articles |-> FALSE]
  /\ rtI = 0 /\ rtMain = "idle"
  /\ rtPc = [a \in Articles |-> "waiting"]
  /\ rtRetries = [a \in Articles |-> 0]
  /\ rtAttempts = [a \in Articles |-> 0]
  /\ rtAllThrew = [a \in Articles |-> TRUE]
  /\ rtMalformed = [a \in Articles |-> FALSE]
  /\ rtResult = [a \in Articles |-> "none"]
  /\ results = <<>>

\* one pass of the for loop up to its await: batch.map starts every article of the
\* sub-batch; an article with the server-error marker resolves at once
StartBatch ==
  /\ rtMain = "for" /\ rtI < rtLen
  /\ rtPc' = [a \in Articles |->
                IF a \in BatchOf(rtI)
                  THEN (IF rtServerError[a] THEN "done" ELSE "calling")
                  ELSE rtPc[a]]
  /\ rtResult' = [a \in Articles |->
                IF a \in BatchOf(rtI) /\ rtServerError[a]
                  THEN "Skipped due to server error"
                  ELSE rtResult[a]]
  /\ rtMain' = "awaitBatch"
  /\ UNCHANGED <<rtLen, rtServerError, rtI, rtRetries, rtAttempts, rtAllThrew,
                 rtMalformed, results>>
  /\ UNCHANGED <<schedVars, cycleVars, kgVars, batchVars, mergeVars, pipeVars, elleVars, evalVars>>

\* one turn of while (!success && retries < MAX_RETRIES): the call of
\* extractArticleInfo and the try or the catch that follows it (the backoff
\* sleep included)
Attempt(a) ==
  /\ rtMain = "awaitBatch" /\ rtPc[a] = "calling"
  /\ \E o \in RemoteOutcomes :
       LET r == extractArticleInfo(o)
           success == ~r.threw
           retries == IF r.threw THEN rtRetries[a] + 1 ELSE rtRetries[a]
       IN /\ rtAttempts' = [rtAttempts EXCEPT ![a] = @ + 1]
          /\ rtAllThrew' = [rtAllThrew EXCEPT ![a] = @ /\ o = "throws"]
          /\ rtMalformed' = [rtMalformed EXCEPT ![a] = @ \/ o = "malformedOutput"]
          /\ rtRetries' = [rtRetries EXCEPT ![a] = retries]
          /\ rtResult' = [rtResult EXCEPT ![a] =
                            IF success THEN r.tag
                            ELSE IF retries >= MAX_RETRIES
                              THEN "Error during extraction" ELSE @]
          /\ rtPc' = [rtPc EXCEPT ![a] =
                        IF KeepTrying(success, retries) THEN "calling" ELSE "done"]
  /\ UNCHANGED <<rtLen, rtServerError, rtI, rtMain, results>>
  /\ UNCHANGED <<schedVars, cycleVars, kgVars, batchVars, mergeVars, pipeVars, elleVars, evalVars>>

\* await Promise.all(batchPromises); results.push(...); i += PROCESSING_BATCH_SIZE
BatchDone ==
  /\ rtMain = "awaitBatch"
  /\ \A a \in BatchOf(rtI) : rtPc[a] = "done"
  /\ results' = results \o [k \in 1..Cardinality(BatchOf(rtI)) |->
                   [id |-> InOrder(BatchOf(rtI))[k],
                    tag |-> rtResult[InOrder(BatchOf(rtI))[k]]]]
  /\ rtI' = rtI + PROCESSING_BATCH_SIZE
  /\ rtMain' = "for"
  /\ UNCHANGED <<rtLen, rtServerError, rtPc, rtRetries, rtAttempts, rtAllThrew,
                 rtMalformed, rtResult>>
  /\ UNCHANGED <<schedVars, cycleVars, kgVars, batchVars, mergeVars, pipeVars, elleVars, evalVars>>

\* the for condition is false: return results
Return ==
  /\ rtMain = "for" /\ rtI >= rtLen
  /\ rtMain' = "returned"
  /\ UNCHANGED <<rtLen, rtServerError, rtI, rtPc, rtRetries, rtAttempts, rtAllThrew,
                 rtMalformed, rtResult, results>>
  /\ UNCHANGED <<schedVars, cycleVars, kgVars, batchVars, mergeVars, pipeVars, elleVars, evalVars>>

NextRetry ==
  \/ StartBatch
  \/ \E a \in Articles : Attempt(a)
  \/ BatchDone
  \/ Return

----------------------------------------------------------------------------
(* Knowledge-graph queue: main of kg_textbooks.ts *)

\* new PQueue({ concurrency: 10 })
KgConcurrency == 10

Textbooks == 1..MaxTextbooks

\* generateKG: threads.create and remoteGraph.invoke succeed, or one of them throws
GenerateKGOutcomes == {"returns", "throws"}

SlotsInUseHeldByFailed(t) ==
  Cardinality({i \in Textbooks : t[i] \in {"running", "rejected"}})

\* the queue's count of tasks that run: a task that settled, either way, left it
SlotsInUse(t) == Cardinality({i \in Textbooks : t[i] = "running"})

Queued(t) == {i \in Textbooks : t[i] = "queued"}

\* the queue starts waiting tasks, first added first, while a slot is free
RECURSIVE StartQueued(_)
StartQueued(t) ==
  IF Queued(t) # {} /\ SlotsInUse(t) < KgConcurrency
    THEN LET i == CHOOSE x \in Queued(t) : \A y \in Queued(t) : x <= y
         IN StartQueued([t EXCEPT ![i] = "running"])
    ELSE t

\* Promise.all(tasks) as main awaits it: rejected with the first rejection,
\* fulfilled once every task is
AwaitAll(m, t) ==
  IF m # "awaitAll" THEN m
  ELSE IF \E i \in Textbooks : t[i] = "rejected" THEN "rejected"
  ELSE IF \A i \in 1..data : t[i] = "fulfilled" THEN "completed"
  ELSE "awaitAll"

KgIdle ==
  /\ data = 0 /\ tasks = [i \in Textbooks |-> "none"] /\ kgMain = "idle"

\* main up to its await: data.map adds one task per item to the queue
main ==
  /\ kgMain = "main"
  /\ LET added == [i \in Textbooks |-> IF i <= data THEN "queued" ELSE "none"]
     IN /\ tasks' = StartQueued(added)
        /\ kgMain' = AwaitAll("awaitAll", added)
  /\ UNCHANGED data
  /\ UNCHANGED <<schedVars, cycleVars, retryVars, batchVars, mergeVars, pipeVars, elleVars, evalVars>>

\* generateKG([item]) of a running task returns or throws: its promise settles,
\* the queue starts the next waiting task, main reacts if it still awaits
generateKG(i) ==
  /\ kgMain # "main" /\ tasks[i] = "running"
  /\ \E o \in GenerateKGOutcomes :
       /\ o = "throws" =>
            Cardinality({j \in Textbooks : tasks[j] = "rejected"}) < MaxFailures
       /\ LET settled == [tasks EXCEPT ![i] =
                            IF o = "returns" THEN "fulfilled" ELSE "rejected"]
          IN /\ tasks' = StartQueued(settled)
             /\ kgMain' = AwaitAll(kgMain, settled)
  /\ UNCHANGED data
  /\ UNCHANGED <<schedVars, cycleVars, retryVars, batchVars, mergeVars, pipeVars, elleVars, evalVars>>

NextKg ==
  \/ main
  \/ \E i \in Textbooks : generateKG(i)

----------------------------------------------------------------------------
(* prepareBatches of mfa_search_agent.ts *)

\* const BATCH_SIZE = 5
BATCH_SIZE == 5

\* what JSON.parse makes of a tool message's content: an array of no or of
\* three elements, one object, or no JSON at all
ContentShapes == {"array0", "array3", "object", "text"}

\* the groups one content contributes: one per array element, else one
GroupsOf(shape, idx) ==
  CASE shape = "array0" -> <<>>
    [] shape = "array3" -> [k \in 1..3 |-> [content |-> idx, element |-> k]]
    [] OTHER -> <<[content |-> idx, element |-> 0]>>

\* retrievedContents.forEach(...): the groups of all contents, in order
RECURSIVE ContentSourceGroups(_)
ContentSourceGroups(cs) ==
  IF cs = <<>> THEN <<>>
  ELSE ContentSourceGroups(SubSeq(cs, 1, Len(cs) - 1))
         \o GroupsOf(Last(cs), Len(cs))

\* items.slice(from, to), positions counted from 0, to clamped to the length
slice(items, from, to) == SubSeq(items, from + 1, Min(to, Len(items)))

RECURSIVE splitFromFullOnly(_, _, _)
splitFromFullOnly(items, size, i) ==
  IF i + size <= Len(items)
    THEN <<slice(items, i, i + size)>> \o splitFromFullOnly(items, size, i + size)
    ELSE <<>>

\* for (let i = 0; i < items.length; i += size) batches.push(items.slice(i, i + size))
RECURSIVE splitFrom(_, _, _)
splitFrom(items, size, i) ==
  IF i < Len(items)
    THEN <<slice(items, i, i + size)>> \o splitFrom(items, size, i + size)
    ELSE <<>>

split(items, size) == splitFrom(items, size, 0)

\* no message appended yet
NoMessage == [found |-> FALSE, items |-> <<>>]

BatchIdle ==
  /\ retrievedContents = <<>> /\ contentBatches = <<>>
  /\ currentBatchIndex = -1 /\ batchNode = "idle"
  /\ allBoundaryResults = <<>> /\ processingComplete = FALSE
  /\ processLog = <<>> /\ mergeRuns = 0 /\ finalMessage = NoMessage

\* the router after prepareBatches and after processBatch
decideBatchProcessing(idx, contentBs, complete) ==
  IF complete THEN "merge"
  ELSE IF Len(contentBs) = 0 \/ idx >= Len(contentBs) THEN "complete"
  ELSE "process_batch"

\* the targets of the conditional edges
BatchEdge(r) ==
  CASE r = "process_batch" -> "processBatch"
    [] r = "complete" -> "completeProcessing"
    [] OTHER -> "mergeResults"

\* the node prepareBatches, the channel writes it returns and the edge taken
prepareBatches ==
  /\ batchNode = "prepareBatches"
  /\ LET batches == split(ContentSourceGroups(retrievedContents), BATCH_SIZE)
         idx == IF Len(batches) > 0 THEN 0 ELSE -1
     IN /\ contentBatches' = batches
        /\ currentBatchIndex' = idx
        /\ batchNode' = BatchEdge(
             decideBatchProcessing(idx, batches, processingComplete))
  /\ UNCHANGED <<retrievedContents, allBoundaryResults, processingComplete,
                 processLog, mergeRuns, finalMessage>>
  /\ UNCHANGED <<schedVars, cycleVars, retryVars, kgVars, mergeVars, pipeVars, elleVars, evalVars>>

\* the boundary model call of one batch: it throws, answers without an
\* extract_boundary tool call, or answers with two of them
BoundaryOutcomes == {"throws", "noToolCalls", "items"}

\* boundaryResults of one processBatch run
boundaryResults(o, idx) ==
  IF o = "items"
    THEN <<[batch |-> idx, call |-> 1], [batch |-> idx, call |-> 2]>>
    ELSE <<>>

allBoundaryResultsReducerReplace(x, y) == y

\* reducer: (x, y) => [...x, ...y]
allBoundaryResultsReducer(x, y) == x \o y

\* the node processBatch: the extraction inside try/catch, then the index
\* advanced whatever happened
processBatch ==
  /\ batchNode = "processBatch"
  /\ \E o \in BoundaryOutcomes :
       LET found == boundaryResults(o, currentBatchIndex)
           nextBatchIndex == currentBatchIndex + 1
           isComplete == nextBatchIndex >= Len(contentBatches)
       IN /\ currentBatchIndex' = nextBatchIndex
          /\ allBoundaryResults' =
               allBoundaryResultsReducer(allBoundaryResults, found)
          /\ processingComplete' = isComplete
          /\ processLog' = Append(processLog,
               [index |-> currentBatchIndex, outcome |-> o, found |-> found])
          /\ batchNode' = BatchEdge(
               decideBatchProcessing(nextBatchIndex, contentBatches, isComplete))
  /\ UNCHANGED <<retrievedContents, contentBatches, mergeRuns, finalMessage>>
  /\ UNCHANGED <<schedVars, cycleVars, retryVars, kgVars, mergeVars, pipeVars, elleVars, evalVars>>

\* the node completeProcessing, followed by the edge to mergeResults
completeProcessing ==
  /\ batchNode = "completeProcessing"
  /\ processingComplete' = TRUE
  /\ batchNode' = "mergeResults"
  /\ UNCHANGED <<retrievedContents, contentBatches, currentBatchIndex,
                 allBoundaryResults, processLog, mergeRuns, finalMessage>>
  /\ UNCHANGED <<schedVars, cycleVars, retryVars, kgVars, mergeVars, pipeVars, elleVars, evalVars>>

\* the node mergeResults: one message with all results, or the message that
\* nothing was found
mergeResults ==
  /\ batchNode = "mergeResults"
  /\ mergeRuns' = mergeRuns + 1
  /\ finalMessage' = [found |-> allBoundaryResults # <<>>,
                      items |-> allBoundaryResults]
  /\ batchNode' = "__end__"
  /\ UNCHANGED <<retrievedContents, contentBatches, currentBatchIndex,
                 allBoundaryResults, processingComplete, processLog>>
  /\ UNCHANGED <<schedVars, cycleVars, retryVars, kgVars, mergeVars, pipeVars, elleVars, evalVars>>

NextBatch ==
  \/ prepareBatches
  \/ processBatch
  \/ completeProcessing
  \/ mergeResults

----------------------------------------------------------------------------
(* The merge agent graph: processInput, filterNonChineseLocations,         *)
(* mergeBySource, addSpatialTags, formatOutput                             *)

\* the values of the source field among the submitted items
MergeSources == {"A", "B"}

OtherSource(s) == IF s = "A" THEN "B" ELSE "A"

\* a validated BoundaryItem: its source, the input items it stands for, its tag
BoundaryItemOf(i, s) == [source |-> s, ids |-> <<i>>, spatialTag |-> "none"]

\* the location chain: a tool call that keeps the item (isInChina and
\* confidence > 0.6), a tool call that does not, no tool call, an exception
FilterOutcomes == {"inChina", "notInChina", "noToolCall", "throws"}

\* the merge chain: a tool call with the group's source, a tool call whose
\* args carry another source, a response without tool call, an exception
MergeOutcomes == {"merged", "renamed", "noToolCall", "throws"}

\* the enum of tagSchema
SpatialTags == {"city", "province", "national", "focus"}

\* the tag chain: a tool call with a tag of the enum or with another value,
\* a response without tool call, an exception
TagOutcomes == SpatialTags \cup {"other", "noToolCall", "throws"}

MergeIdle ==
  /\ mgContent = "none" /\ mgInput = <<>> /\ boundaryItems = <<>>
  /\ filteredItems = <<>> /\ mergedResults = <<>> /\ taggedResults = <<>>
  /\ mgOutput = <<>> /\ mergeCalls = <<>> /\ tagCalls = <<>>
  /\ mgThrewIn = "none" /\ mgNode = "idle"

\* JSON.parse of the message content and BoundaryItem.parse of every element;
\* neither is caught
processInput ==
  /\ mgNode = "processInput"
  /\ IF mgContent = "notJson"
       THEN /\ mgNode' = "failed" /\ mgThrewIn' = "processInput"
            /\ UNCHANGED boundaryItems
       ELSE /\ boundaryItems' =
                 [i \in 1..Len(mgInput) |-> BoundaryItemOf(i, mgInput[i])]
            /\ mgNode' = "filterNonChineseLocations"
            /\ UNCHANGED mgThrewIn
  /\ UNCHANGED <<mgContent, mgInput, filteredItems, mergedResults,
                 taggedResults, mgOutput, mergeCalls, tagCalls>>
  /\ UNCHANGED <<schedVars, cycleVars, retryVars, kgVars, batchVars, pipeVars, elleVars, evalVars>>

\* if (locationResult.isInChina && locationResult.confidence > 0.6)
KeepsItem(outcome) == outcome = "inChina"

\* the for loop of filterNonChineseLocations over the first n items
RECURSIVE filterLoop(_, _, _)
filterLoop(items, o, n) ==
  IF n = 0 THEN <<>>
  ELSE LET before == filterLoop(items, o, n - 1)
       IN IF KeepsItem(o[n]) THEN Append(before, items[n]) ELSE before

filterNonChineseLocations ==
  /\ mgNode = "filterNonChineseLocations"
  /\ \E o \in [1..Len(boundaryItems) -> FilterOutcomes] :
       IF \E i \in 1..Len(boundaryItems) : o[i] = "throws"
         THEN /\ mgNode' = "failed"
              /\ mgThrewIn' = "filterNonChineseLocations"
              /\ UNCHANGED filteredItems
         ELSE /\ filteredItems' = filterLoop(boundaryItems, o, Len(boundaryItems))
              /\ mgNode' = "mergeBySource"
              /\ UNCHANGED mgThrewIn
  /\ UNCHANGED <<mgContent, mgInput, boundaryItems, mergedResults,
                 taggedResults, mgOutput, mergeCalls, tagCalls>>
  /\ UNCHANGED <<schedVars, cycleVars, retryVars, kgVars, batchVars, pipeVars, elleVars, evalVars>>

groupedBySourceReversed(items, source) ==
  LET g == SelectSeq(items, LAMBDA it : it.source = source)
  IN [k \in 1..Len(g) |-> g[Len(g) + 1 - k]]

\* groupedBySource[source]: the items of that source, in input order
groupedBySource(items, source) ==
  SelectSeq(items, LAMBDA it : it.source = source)

\* for (const source in groupedBySource): the keys in the order they were
\* first inserted
RECURSIVE SourceKeys(_)
SourceKeys(items) ==
  IF items = <<>> THEN <<>>
  ELSE LET before == SourceKeys(SubSeq(items, 1, Len(items) - 1))
       IN IF \E k \in 1..Len(before) : before[k] = Last(items).source
            THEN before
            ELSE Append(before, Last(items).source)

NeedsMergeCallAlways(group) == TRUE

\* items.length === 1: pushed as it is, no call
NeedsMergeCall(group) == Len(group) # 1

\* the ids of the items handed to one merge call, in the order handed over
IdsOf(group) == [k \in 1..Len(group) |-> group[k].ids[1]]

\* result.tool_calls[0].args, pushed as the merged item
mergedItem(outcome, group) ==
  [source |-> IF outcome = "renamed" THEN OtherSource(group[1].source)
                                     ELSE group[1].source,
   ids |-> IdsOf(group), spatialTag |-> "none"]

\* the loop of mergeBySource over the first keys; threw: chain.invoke raised
\* and nothing of the loop is returned
RECURSIVE mergeLoop(_, _, _)
mergeLoop(items, keys, o) ==
  IF keys = <<>> THEN [merged |-> <<>>, calls |-> <<>>, threw |-> FALSE]
  ELSE LET prev == mergeLoop(items, SubSeq(keys, 1, Len(keys) - 1), o)
           source == Last(keys)
           group == groupedBySource(items, source)
           call == [source |-> source, ids |-> IdsOf(group)]
       IN IF prev.threw THEN prev
          ELSE IF ~NeedsMergeCall(group)
            THEN [prev EXCEPT !.merged = Append(@, group[1])]
          ELSE IF o[source] = "throws"
            THEN [prev EXCEPT !.calls = Append(@, call), !.threw = TRUE]
          ELSE IF o[source] = "noToolCall"
            THEN [prev EXCEPT !.calls = Append(@, call)]
          ELSE [prev EXCEPT !.calls = Append(@, call),
                            !.merged = Append(@, mergedItem(o[source], group))]

mergeBySource ==
  /\ mgNode = "mergeBySource"
  /\ \E o \in [MergeSources -> MergeOutcomes] :
       LET r == mergeLoop(filteredItems, SourceKeys(filteredItems), o)
       IN /\ mergeCalls' = r.calls
          /\ IF r.threw
               THEN /\ mgNode' = "failed" /\ mgThrewIn' = "mergeBySource"
                    /\ UNCHANGED mergedResults
               ELSE /\ mergedResults' = r.merged
                    /\ mgNode' = "addSpatialTags"
                    /\ UNCHANGED mgThrewIn
  /\ UNCHANGED <<mgContent, mgInput, boundaryItems, filteredItems,
                 taggedResults, mgOutput, tagCalls>>
  /\ UNCHANGED <<schedVars, cycleVars, retryVars, kgVars, batchVars, pipeVars, elleVars, evalVars>>

\* if (result.tool_calls && result.tool_calls.length > 0) inside the try
TagsItemEvenWithoutCall(outcome) == TRUE

TagsItem(outcome) == outcome \notin {"noToolCall", "throws"}

\* the for loop of addSpatialTags over the first n merged items
RECURSIVE tagLoop(_, _, _)
tagLoop(items, o, n) ==
  IF n = 0 THEN <<>>
  ELSE LET before == tagLoop(items, o, n - 1)
       IN IF TagsItem(o[n])
            THEN Append(before, [items[n] EXCEPT !.spatialTag = o[n]])
            ELSE before

addSpatialTags ==
  /\ mgNode = "addSpatialTags"
  /\ \E o \in [1..Len(mergedResults) -> TagOutcomes] :
       /\ taggedResults' = tagLoop(mergedResults, o, Len(mergedResults))
       /\ tagCalls' = o
  /\ mgNode' = "formatOutput"
  /\ UNCHANGED <<mgContent, mgInput, boundaryItems, filteredItems,
                 mergedResults, mgOutput, mergeCalls, mgThrewIn>>
  /\ UNCHANGED <<schedVars, cycleVars, retryVars, kgVars, batchVars, pipeVars, elleVars, evalVars>>

\* content: JSON.stringify(results): the tagged results as one flat list
formatOutput ==
  /\ mgNode = "formatOutput"
  /\ mgOutput' = taggedResults
  /\ mgNode' = "__end__"
  /\ UNCHANGED <<mgContent, mgInput, boundaryItems, filteredItems,
                 mergedResults, taggedResults, mergeCalls, tagCalls,
                 mgThrewIn>>
  /\ UNCHANGED <<schedVars, cycleVars, retryVars, kgVars, batchVars, pipeVars, elleVars, evalVars>>

NextMerge ==
  \/ processInput
  \/ filterNonChineseLocations
  \/ mergeBySource
  \/ addSpatialTags
  \/ formatOutput

----------------------------------------------------------------------------
(* searchExpandAndMerge, mergeBoundaryData, mergeInBatches of mfa.ts *)

\* JOURNALS.length: one search task per journal
NumJournals == 11

\* new PQueue({ concurrency: 3 })
SearchConcurrency == 3

\* if (boundaryData.length > 15)
LargeDatasetThreshold == 15

\* const batchSize = 10 of mergeInBatches
batchSize == 10

Journals == 1..NumJournals

\* performMfaSearch catches every error: { success: true } or { success: false }
MfaSearchOutcomes == {"success", "failure"}

\* the merge agent graph as mergeBoundaryData and mergeInBatches see it: it
\* answers with its merged records, answers with an empty list (every item
\* filtered out or left untagged), or the call throws
MergeGraphOutcomes == {"merged", "empty", "throws"}

\* client.threads.create() before the call: a thread, or an exception
ThreadOutcomes == {"created", "throws"}

SearchSlotsInUse(t) == Cardinality({j \in Journals : t[j] = "running"})

SearchQueued(t) == {j \in Journals : t[j] = "queued"}

\* the queue starts waiting searches, first added first, while a slot is free
RECURSIVE StartSearches(_)
StartSearches(t) ==
  IF SearchQueued(t) # {} /\ SearchSlotsInUse(t) < SearchConcurrency
    THEN LET j == CHOOSE x \in SearchQueued(t) : \A y \in SearchQueued(t) : x <= y
         IN StartSearches([t EXCEPT ![j] = "running"])
    ELSE t

SomeSearchSettled(t) == \E j \in Journals : t[j] \in MfaSearchOutcomes

\* await Promise.all(searchTasks): no task rejects, so it waits for them all
AllSearchesSettled(t) == \A j \in Journals : t[j] \in MfaSearchOutcomes

\* the k-th extract_boundary tool call in the result of journal j
ItemId(j, k) == 100 * j + k

\* a search result with n extract_boundary calls whose sources repeat with
\* period p
FoundItems(j, n, p) ==
  [k \in 1..n |->
     BoundaryItemOf(ItemId(j, k), IF (k - 1) % p = 0 THEN "A" ELSE "B")]

\* the results a successful search of journal j may hold: the last journal
\* finds up to MaxBoundaryItems - 1 items, the one before it at most one,
\* the others none
MfaSearchResults(j) ==
  IF j = NumJournals
    THEN {FoundItems(j, n, p) : n \in 0..(MaxBoundaryItems - 1), p \in 1..2}
  ELSE IF j = NumJournals - 1 THEN {FoundItems(j, n, 1) : n \in 0..1}
  ELSE {<<>>}

\* if (result.success && result.result) extractBoundaryData(result.result)
extractBoundaryData(t, found, j) ==
  IF t[j] = "success" THEN found[j] ELSE <<>>

PromiseAllAsSettled(settled) ==
  settled \o SelectSeq([j \in Journals |-> j],
                       LAMBDA j : \A k \in 1..Len(settled) : settled[k] # j)

\* const searchResults = await Promise.all(searchTasks): the results stand
\* in the order of the tasks, whatever the order they settled in
searchResultsOf(settled) == [j \in Journals |-> j]

\* searchResults.forEach(result => allBoundaryData.push(...boundaryItems))
RECURSIVE collectFrom(_, _, _, _)
collectFrom(order, t, found, n) ==
  IF n = 0 THEN <<>>
  ELSE collectFrom(order, t, found, n - 1)
         \o extractBoundaryData(t, found, order[n])

LargeDatasetFromThreshold(items) == Len(items) >= LargeDatasetThreshold

LargeDataset(items) == Len(items) > LargeDatasetThreshold

\* what the merge agent graph returns for the items of one call when every
\* item passes the filter and every model call answers: one record a source
MergeGraphResult(items) ==
  LET keys == SourceKeys(items)
  IN [k \in 1..Len(keys) |->
        LET group == groupedBySource(items, keys[k])
        IN IF NeedsMergeCall(group) THEN mergedItem("merged", group)
                                    ELSE group[1]]

\* what one call contributes to the result: the parsed last message, or the
\* unmerged items of the catch branch
CallResult(outcome, items) ==
  CASE outcome = "merged" -> MergeGraphResult(items)
    [] outcome = "empty" -> <<>>
    [] OTHER -> items

MayStartBatchUnawaited(inFlight) == TRUE

\* const result = await mergeAgentGraph.invoke(...): the loop goes on only
\* after the call of the batch before has settled
MayStartBatch(inFlight) == inFlight = 0

PipeIdle ==
  /\ searchTasks = [j \in Journals |-> "none"] /\ pipePc = "idle"
  /\ allBoundaryData = <<>> /\ mbBatches = <<>> /\ batchStarted = 0
  /\ batchSettled = 0 /\ mergeInFlight = 0 /\ mergeInputs = <<>>
  /\ mergedBatches = <<>> /\ parsedResults = <<>>
  /\ searchFound = [j \in Journals |-> <<>>] /\ foundOrder = <<>>
  /\ mergeLog = <<>>

\* searchExpandAndMerge up to its first await: one queued task per journal
searchExpandAndMerge ==
  /\ pipePc = "start"
  /\ searchTasks' = StartSearches([j \in Journals |-> "queued"])
  /\ pipePc' = "awaitSearch"
  /\ UNCHANGED <<allBoundaryData, mbBatches, batchStarted, batchSettled,
                 mergeInFlight, mergeInputs, mergedBatches, parsedResults,
                 searchFound, foundOrder, mergeLog>>
  /\ UNCHANGED <<schedVars, cycleVars, retryVars, kgVars, batchVars, mergeVars, elleVars, evalVars>>

\* performMfaSearch of a running task returns; the queue starts the next one
performMfaSearch(j) ==
  /\ searchTasks[j] = "running"
  /\ \E o \in MfaSearchOutcomes :
       /\ o = "failure" =>
            Cardinality({x \in Journals : searchTasks[x] = "failure"})
              < MaxSearchFailures
       /\ searchTasks' = StartSearches([searchTasks EXCEPT ![j] = o])
       /\ \E items \in MfaSearchResults(j) :
            /\ o = "failure" => items = <<>>
            /\ searchFound' = [searchFound EXCEPT ![j] = items]
            /\ foundOrder' = IF items # <<>> THEN Append(foundOrder, j)
                                             ELSE foundOrder
  /\ UNCHANGED <<pipePc, allBoundaryData, mbBatches, batchStarted, batchSettled,
                 mergeInFlight, mergeInputs, mergedBatches, parsedResults,
                 mergeLog>>
  /\ UNCHANGED <<schedVars, cycleVars, retryVars, kgVars, batchVars, mergeVars, elleVars, evalVars>>

\* the continuation of Promise.all: the boundary data is collected; without
\* data the function returns, else mergeBoundaryData runs up to its first
\* await, through the split of mergeInBatches for a large dataset
collectBoundaryData ==
  /\ pipePc = "awaitSearch" /\ AllSearchesSettled(searchTasks)
  /\ LET items == collectFrom(searchResultsOf(foundOrder), searchTasks,
                              searchFound, NumJournals)
     IN /\ allBoundaryData' = items
        /\ IF items = <<>> THEN /\ pipePc' = "returned" /\ mbBatches' = <<>>
           ELSE IF LargeDataset(items)
             THEN /\ mbBatches' = splitFrom(items, batchSize, 0)
                  /\ pipePc' = "mergeInBatches"
           ELSE /\ mbBatches' = <<>> /\ pipePc' = "mergeBoundaryData"
  /\ UNCHANGED <<searchTasks, batchStarted, batchSettled, mergeInFlight,
                 mergeInputs, mergedBatches, parsedResults, searchFound,
                 foundOrder, mergeLog>>
  /\ UNCHANGED <<schedVars, cycleVars, retryVars, kgVars, batchVars, mergeVars, elleVars, evalVars>>

\* mergeBoundaryData for an ordinary dataset: the thread is created and one
\* call carrying every item is sent, or threads.create throws and the catch
\* branch returns the unmerged data
invokeMerge ==
  /\ pipePc = "mergeBoundaryData" /\ mergeInFlight = 0
  /\ \E t \in ThreadOutcomes :
       IF t = "created"
         THEN /\ mergeInFlight' = 1
              /\ mergeInputs' = Append(mergeInputs, allBoundaryData)
              /\ UNCHANGED <<pipePc, parsedResults, mergeLog>>
         ELSE /\ parsedResults' = allBoundaryData
              /\ mergeLog' = Append(mergeLog, "throws")
              /\ pipePc' = "returned"
              /\ UNCHANGED <<mergeInFlight, mergeInputs>>
  /\ UNCHANGED <<searchTasks, allBoundaryData, mbBatches, batchStarted,
                 batchSettled, mergedBatches, searchFound, foundOrder>>
  /\ UNCHANGED <<schedVars, cycleVars, retryVars, kgVars, batchVars, mergeVars, elleVars, evalVars>>

\* the one call of an ordinary dataset settles; searchExpandAndMerge parses
\* the last message and returns
settleMerge ==
  /\ pipePc = "mergeBoundaryData" /\ mergeInFlight = 1
  /\ \E o \in MergeGraphOutcomes :
       /\ parsedResults' = CallResult(o, allBoundaryData)
       /\ mergeLog' = Append(mergeLog, o)
  /\ mergeInFlight' = 0
  /\ pipePc' = "returned"
  /\ UNCHANGED <<searchTasks, allBoundaryData, mbBatches, batchStarted,
                 batchSettled, mergeInputs, mergedBatches, searchFound,
                 foundOrder>>
  /\ UNCHANGED <<schedVars, cycleVars, retryVars, kgVars, batchVars, mergeVars, elleVars, evalVars>>

\* the state after a batch is dealt with: the loop goes on, or it is over and
\* mergeInBatches and searchExpandAndMerge return the flattened result
AfterBatch(merged, settled) ==
  /\ mergedBatches' = merged
  /\ batchSettled' = settled
  /\ IF settled = Len(mbBatches)
       THEN /\ pipePc' = "returned" /\ parsedResults' = merged
       ELSE UNCHANGED <<pipePc, parsedResults>>

\* one turn of the loop of mergeInBatches up to its call: the thread is
\* created and the batch sent, or threads.create throws and the catch branch
\* keeps the batch unmerged
invokeBatch ==
  /\ pipePc = "mergeInBatches" /\ batchStarted < Len(mbBatches)
  /\ MayStartBatch(mergeInFlight)
  /\ batchStarted' = batchStarted + 1
  /\ \E t \in ThreadOutcomes :
       IF t = "created"
         THEN /\ mergeInFlight' = mergeInFlight + 1
              /\ mergeInputs' = Append(mergeInputs, mbBatches[batchStarted + 1])
              /\ UNCHANGED <<pipePc, parsedResults, mergedBatches, batchSettled,
                             mergeLog>>
         ELSE /\ AfterBatch(mergedBatches \o mbBatches[batchStarted + 1],
                            batchSettled + 1)
              /\ mergeLog' = Append(mergeLog, "throws")
              /\ UNCHANGED <<mergeInFlight, mergeInputs>>
  /\ UNCHANGED <<searchTasks, allBoundaryData, mbBatches, searchFound,
                 foundOrder>>
  /\ UNCHANGED <<schedVars, cycleVars, retryVars, kgVars, batchVars, mergeVars, elleVars, evalVars>>

\* the call of the batch in flight settles: its records, or in the catch
\* branch its unmerged items, are pushed onto mergedBatches
settleBatch ==
  /\ pipePc = "mergeInBatches" /\ mergeInFlight > 0
  /\ \E o \in MergeGraphOutcomes :
       /\ AfterBatch(mergedBatches \o CallResult(o, mbBatches[batchSettled + 1]),
                     batchSettled + 1)
       /\ mergeLog' = Append(mergeLog, o)
  /\ mergeInFlight' = mergeInFlight - 1
  /\ UNCHANGED <<searchTasks, allBoundaryData, mbBatches, batchStarted,
                 mergeInputs, searchFound, foundOrder>>
  /\ UNCHANGED <<schedVars, cycleVars, retryVars, kgVars, batchVars, mergeVars, elleVars, evalVars>>

NextPipe ==
  \/ searchExpandAndMerge
  \/ \E j \in Journals : performMfaSearch(j)
  \/ collectBoundaryData
  \/ invokeMerge
  \/ settleMerge
  \/ invokeBatch
  \/ settleBatch

----------------------------------------------------------------------------
(* the answer / evaluate graph of elle_agent.ts *)

\* rounds of getAnswer / evaluateAnswer followed; the graph itself has no limit
MaxRounds == 3

\* times the model of the subgraph asks for tools before it answers
MaxToolRounds == 1

\* response.score: a number from 0 to 100
Scores == {0, 90, 91, 100}

\* the channel score before evaluateAnswer wrote it (undefined > 90 is false)
NoScore == -1

\* response?.suggestion ?? ''
Suggestions == {"", "suggestion"}

ElleOutcomes == {"returns", "throws"}

\* the messages the subgraph ends with: the question, every tool round of
\* callModel and the tool node, the answer of callModel
SubgraphMessages(t) ==
  [k \in 1..(2 * t + 2) |->
     IF k = 1 THEN "human"
     ELSE IF k = 2 * t + 2 THEN "ai"
     ELSE IF k % 2 = 0 THEN "aiToolCalls" ELSE "tool"]

\* the answers the subgraph ends with: callModel adds the content of every
\* response, the one that ends the subgraph last
SubgraphAnswers(t, round) ==
  [k \in 1..(t + 1) |-> [round |-> round, final |-> k = t + 1]]

routeModelThinkFrom90(s) == IF s >= 90 THEN "__end__" ELSE "getAnswer"

routeModelThink(s) == IF s > 90 THEN "__end__" ELSE "getAnswer"

ElleIdle ==
  /\ elleMessages = <<>> /\ answers = <<>> /\ suggestion = ""
  /\ score = NoScore /\ scoreLog = <<>> /\ elleNode = "idle"

\* getAnswer: the subgraph runs on the first message and the suggestion; its
\* messages and answers are added to the channels
getAnswer ==
  /\ elleNode = "getAnswer" /\ Len(scoreLog) < MaxRounds
  /\ \E o \in ElleOutcomes, t \in 0..MaxToolRounds :
       IF o = "throws"
         THEN /\ t = 0 /\ elleNode' = "failed"
              /\ UNCHANGED <<elleMessages, answers>>
         ELSE /\ elleMessages' = elleMessages \o SubgraphMessages(t)
              /\ answers' = answers \o SubgraphAnswers(t, Len(scoreLog) + 1)
              /\ elleNode' = "evaluateAnswer"
  /\ UNCHANGED <<suggestion, score, scoreLog>>
  /\ UNCHANGED <<schedVars, cycleVars, retryVars, kgVars, batchVars, mergeVars,
                 pipeVars, evalVars>>

\* evaluateAnswer and the conditional edge out of it: the evaluator scores the
\* last answer, the node hands back state.answers, routeModelThink picks the
\* next node
evaluateAnswer ==
  /\ elleNode = "evaluateAnswer"
  /\ \E o \in ElleOutcomes, s \in Scores, g \in Suggestions :
       IF o = "throws"
         THEN /\ s = 0 /\ g = "" /\ elleNode' = "failed"
              /\ UNCHANGED <<elleMessages, answers, suggestion, score, scoreLog>>
         ELSE /\ answers' = answers \o answers
              /\ elleMessages' = Append(elleMessages, "evaluation")
              /\ suggestion' = g
              /\ score' = s
              /\ scoreLog' = Append(scoreLog, s)
              /\ elleNode' = routeModelThink(s)
  /\ UNCHANGED <<schedVars, cycleVars, retryVars, kgVars, batchVars, mergeVars,
                 pipeVars, evalVars>>

NextElle ==
  \/ getAnswer
  \/ evaluateAnswer

----------------------------------------------------------------------------
(* main of multi_agents/elle_evaluate.ts *)

\* data.length is at most MaxQuestions
MaxQuestions == 4

\* new PQueue({ concurrency: 10 })
EvalConcurrency == 10

Questions == 1..MaxQuestions

\* evaluateResponse: the structured call returns, or it throws
EvaluateResponseOutcomes == {"returns", "throws"}

NoFile == [written |-> FALSE, content |-> <<>>]

\* fs.writeFileSync(..., JSON.stringify(results, null, 2), 'utf-8')
writeFileSync(r) == [written |-> TRUE, content |-> r]

EvalQueued(t) == {i \in Questions : t[i] = "queued"}

\* the queue starts waiting tasks, first added first, while a slot is free
RECURSIVE StartEvaluations(_)
StartEvaluations(t) ==
  IF /\ EvalQueued(t) # {}
     /\ Cardinality({i \in Questions : t[i] = "running"}) < EvalConcurrency
    THEN LET i == CHOOSE x \in EvalQueued(t) : \A y \in EvalQueued(t) : x <= y
         IN StartEvaluations([t EXCEPT ![i] = "running"])
    ELSE t

pushAtIndex(r, i) ==
  SelectSeq(r, LAMBDA x : x < i) \o <<i>> \o SelectSeq(r, LAMBDA x : x > i)

\* results.push(result)
push(r, i) == Append(r, i)

\* await Promise.all(tasks) and what follows it: main is rejected with the
\* first rejection and goes on to write the file once every task is fulfilled
AfterAwait(m, t, n) ==
  IF m # "awaitAll" THEN m
  ELSE IF \E i \in Questions : t[i] = "rejected" THEN "rejected"
  ELSE IF \A i \in 1..n : t[i] = "fulfilled" THEN "written"
  ELSE "awaitAll"

EvalIdle ==
  /\ evalData = 0 /\ evalTasks = [i \in Questions |-> "none"]
  /\ evalResults = <<>> /\ evalSettled = <<>> /\ outFile = NoFile
  /\ evalMain = "idle"

\* main up to its await: data.map adds one task per item to the queue; with
\* no item Promise.all is fulfilled at once and the file is written
mainEvaluate ==
  /\ evalMain = "main"
  /\ LET added == [i \in Questions |-> IF i <= evalData THEN "queued" ELSE "none"]
     IN /\ evalTasks' = StartEvaluations(added)
        /\ evalMain' = AfterAwait("awaitAll", added, evalData)
        /\ outFile' = IF evalData = 0 THEN writeFileSync(evalResults) ELSE outFile
  /\ UNCHANGED <<evalData, evalResults, evalSettled>>
  /\ UNCHANGED <<schedVars, cycleVars, retryVars, kgVars, batchVars, mergeVars,
                 pipeVars, elleVars>>

\* evaluateResponse(item) of a running task returns or throws: a result is
\* pushed, the task settles, the queue starts the next waiting task, main
\* goes on if it still awaits
evaluateResponse(i) ==
  /\ evalMain # "main" /\ evalTasks[i] = "running"
  /\ \E o \in EvaluateResponseOutcomes :
       LET settled == [evalTasks EXCEPT ![i] =
                         IF o = "returns" THEN "fulfilled" ELSE "rejected"]
           pushed == IF o = "returns" THEN push(evalResults, i) ELSE evalResults
           m == AfterAwait(evalMain, settled, evalData)
       IN /\ evalTasks' = StartEvaluations(settled)
          /\ evalResults' = pushed
          /\ evalMain' = m
          /\ outFile' = IF evalMain = "awaitAll" /\ m = "written"
                          THEN writeFileSync(pushed) ELSE outFile
  /\ evalSettled' = Append(evalSettled, i)
  /\ UNCHANGED evalData
  /\ UNCHANGED <<schedVars, cycleVars, retryVars, kgVars, batchVars, mergeVars,
                 pipeVars, elleVars>>

NextEval ==
  \/ mainEvaluate
  \/ \E i \in Questions : evaluateResponse(i)

----------------------------------------------------------------------------
(* Specifications *)

InitSched ==
  /\ wf \in {"sort", "search"}
  /\ numArticles \in 0..MaxItems
  /\ maxConcurrent \in (IF wf = "sort" THEN {SortMaxConcurrent} ELSE 1..MaxLimit)
  /\ index = 0 /\ activePromises = 0 /\ promises = <<>>
  /\ pstate = [i \in Items |-> "unstarted"]
  /\ pvalue = [i \in Items |-> NoValue]
  /\ searchResults = [i \in Items |-> "unset"]
  /\ lastSettled = 0 /\ reversed = TRUE
  /\ schedPc = "loop" /\ allResults = <<>>
  /\ CycleIdle /\ RetryIdle /\ KgIdle /\ BatchIdle /\ MergeIdle /\ PipeIdle /\ ElleIdle /\ EvalIdle

\* the channels at their defaults, the input written, the edge from __start__ taken
InitCycle ==
  /\ content \in ContentKinds
  /\ isRelevant = FALSE /\ boundaryItem = NullItem /\ cycleCount = 0
  /\ evaluationResult = NullVerdict /\ feedbackSuggestions = <<>>
  /\ sourceInfo = "Unknown Source" /\ rawContent = "" /\ messages = <<>>
  /\ cyNode = "checkRelevance" /\ classifyOutcome = "none"
  /\ extractLog = <<>> /\ verdictLog = <<>> /\ nodeLog = <<>>
  /\ SchedIdle /\ RetryIdle /\ KgIdle /\ BatchIdle /\ MergeIdle /\ PipeIdle /\ ElleIdle /\ EvalIdle

\* the articles as loadArticlesFromFile hands them over
InitRetry ==
  /\ rtLen \in 0..MaxArticles
  /\ rtServerError \in [Articles -> BOOLEAN]
  /\ \A a \in Articles : a > rtLen => ~rtServerError[a]
  /\ rtI = 0 /\ rtMain = "for"
  /\ rtPc = [a \in Articles |-> "waiting"]
  /\ rtRetries = [a \in Articles |-> 0]
  /\ rtAttempts = [a \in Articles |-> 0]
  /\ rtAllThrew = [a \in Articles |-> TRUE]
  /\ rtMalformed = [a \in Articles |-> FALSE]
  /\ rtResult = [a \in Articles |-> "none"]
  /\ results = <<>>
  /\ SchedIdle /\ CycleIdle /\ KgIdle /\ BatchIdle /\ MergeIdle /\ PipeIdle /\ ElleIdle /\ EvalIdle

SpecSched == InitSched /\ [][NextSched]_vars

SpecCycle == InitCycle /\ [][NextCycle]_vars

\* the graph runtime runs the next node as long as there is one
SpecCycleFair == SpecCycle /\ WF_vars(NextCycle)

SpecRetry == InitRetry /\ [][NextRetry]_vars

\* textbooks.json read and parsed, the queue created
InitKg ==
  /\ data \in 0..MaxTextbooks
  /\ tasks = [i \in Textbooks |-> "none"] /\ kgMain = "main"
  /\ SchedIdle /\ CycleIdle /\ RetryIdle /\ BatchIdle /\ MergeIdle /\ PipeIdle /\ ElleIdle /\ EvalIdle

SpecKg == InitKg /\ [][NextKg]_vars

RECURSIVE SeqsUpTo(_, _)
SeqsUpTo(S, n) ==
  IF n = 0 THEN {<<>>}
  ELSE LET shorter == SeqsUpTo(S, n - 1)
       IN shorter \cup {Append(q, x) : q \in shorter, x \in S}

\* the tool messages collected, the channels at their defaults
InitBatch ==
  /\ retrievedContents \in SeqsUpTo(ContentShapes, MaxContents)
  /\ contentBatches = <<>> /\ currentBatchIndex = -1
  /\ batchNode = "prepareBatches"
  /\ allBoundaryResults = <<>> /\ processingComplete = FALSE
  /\ processLog = <<>> /\ mergeRuns = 0 /\ finalMessage = NoMessage
  /\ SchedIdle /\ CycleIdle /\ RetryIdle /\ KgIdle /\ MergeIdle /\ PipeIdle /\ ElleIdle /\ EvalIdle

SpecBatch == InitBatch /\ [][NextBatch]_vars

\* one user message holding the boundary data, the channels at their defaults
InitMerge ==
  /\ mgContent \in {"array", "notJson"}
  /\ mgInput \in SeqsUpTo(MergeSources, MaxMergeItems)
  /\ mgContent = "notJson" => mgInput = <<>>
  /\ boundaryItems = <<>> /\ filteredItems = <<>> /\ mergedResults = <<>>
  /\ taggedResults = <<>> /\ mgOutput = <<>> /\ mergeCalls = <<>>
  /\ tagCalls = <<>> /\ mgThrewIn = "none" /\ mgNode = "processInput"
  /\ SchedIdle /\ CycleIdle /\ RetryIdle /\ KgIdle /\ BatchIdle /\ PipeIdle /\ ElleIdle /\ EvalIdle

SpecMerge == InitMerge /\ [][NextMerge]_vars

\* searchExpandAndMerge called, nothing done yet
InitPipe ==
  /\ searchTasks = [j \in Journals |-> "none"] /\ pipePc = "start"
  /\ allBoundaryData = <<>> /\ mbBatches = <<>> /\ batchStarted = 0
  /\ batchSettled = 0 /\ mergeInFlight = 0 /\ mergeInputs = <<>>
  /\ mergedBatches = <<>> /\ parsedResults = <<>>
  /\ searchFound = [j \in Journals |-> <<>>] /\ foundOrder = <<>>
  /\ mergeLog = <<>>
  /\ SchedIdle /\ CycleIdle /\ RetryIdle /\ KgIdle /\ BatchIdle /\ MergeIdle /\ ElleIdle /\ EvalIdle

SpecPipe == InitPipe /\ [][NextPipe]_vars

\* the graph invoked with one message, the question
InitElle ==
  /\ elleMessages = <<"human">> /\ answers = <<>> /\ suggestion = ""
  /\ score = NoScore /\ scoreLog = <<>> /\ elleNode = "getAnswer"
  /\ SchedIdle /\ CycleIdle /\ RetryIdle /\ KgIdle /\ BatchIdle /\ MergeIdle /\ PipeIdle /\ EvalIdle

SpecElle == InitElle /\ [][NextElle]_vars

\* main called: the response files hold up to MaxQuestions items
InitEval ==
  /\ evalData \in 0..MaxQuestions
  /\ evalTasks = [i \in Questions |-> "none"]
  /\ evalResults = <<>> /\ evalSettled = <<>> /\ outFile = NoFile
  /\ evalMain = "main"
  /\ SchedIdle /\ CycleIdle /\ RetryIdle /\ KgIdle /\ BatchIdle /\ MergeIdle /\ PipeIdle /\ ElleIdle

SpecEval == InitEval /\ [][NextEval]_vars

----------------------------------------------------------------------------
(* Properties of the admission loop, checked under SpecSched *)

\* C18: in a run of the admission loop the worker is started exactly once for
\* every input item: no item is started twice, the items started are the first
\* index items of the input, and once the loop has ended every item has been
\* started, whatever the order in which the workers settle.
C18_StartedExactlyOnce ==
  /\ \A k, l \in 1..Len(promises) : promises[k] = promises[l] => k = l
  /\ Len(promises) = index
  /\ \A i \in Items :
       (pstate[i] # "unstarted") <=> (\E k \in 1..Len(promises) : promises[k] = i)
  /\ \A i \in Items : pstate[i] # "unstarted" => i <= numArticles
  /\ schedPc \in {"awaitAll", "done"} =>
       \A i \in 1..numArticles : \E k \in 1..Len(promises) : promises[k] = i

\* a finished run of several items whose first item settled last
C18_Witness ==
  /\ schedPc = "done" /\ numArticles >= 2
  /\ lastSettled = 1

\* C19 as stated: after a run every input item has the field values it was
\* submitted with (searchResults is the one field of an item the loops touch).
C19_ItemsUnchanged ==
  schedPc = "done" => \A i \in Items : searchResults[i] = "unset"

\* C19: the sort run leaves every input item as submitted; the search run
\* changes an item only in its searchResults field, only from the callback of
\* the item's own worker, and only when that worker returned; the value written
\* is the one the result list reports on.
C19_OnlyOwnSearchResultsWritten ==
  \A i \in Items :
    /\ wf = "sort" => searchResults[i] = "unset"
    /\ searchResults[i] # "unset" =>
         /\ wf = "search" /\ pstate[i] = "fulfilled"
         /\ pvalue[i].item = i
         /\ pvalue[i].flag <=> searchResults[i] = "some"
    /\ (wf = "search" /\ pstate[i] = "fulfilled" /\ searchResults[i] = "unset")
         => ~pvalue[i].flag

\* a finished search run with an item that was written and one that was not
C19_Witness ==
  /\ schedPc = "done" /\ wf = "search"
  /\ \E i, j \in 1..numArticles :
       /\ searchResults[i] = "some"
       /\ searchResults[j] = "unset" /\ pstate[j] = "fulfilled"

\* C1: in every reachable state of the admission loop the number of worker
\* invocations that have started and not yet settled is at most maxConcurrent.
C1_InFlightBounded ==
  /\ Cardinality(InFlight) <= maxConcurrent
  /\ activePromises = Cardinality(InFlight)

\* the limit is reached while an article is still waiting, in runSortWorkflow
C1_Witness ==
  /\ wf = "sort" /\ schedPc = "sleeping"
  /\ Cardinality(InFlight) = maxConcurrent /\ index < numArticles

\* C2: the list Promise.all returns has, at every position k, the result the
\* worker produced for articles[k], whatever the order in which the workers
\* settled.
C2_ResultsInInputOrder ==
  schedPc = "done" =>
    /\ Len(allResults) = numArticles
    /\ \A k \in 1..numArticles :
         /\ allResults[k].item = k
         /\ allResults[k] = pvalue[k]
         /\ wf = "search" => (allResults[k].flag <=> searchResults[k] = "some")

\* three workers settled in reverse submission order and the run finished
C2_Witness ==
  /\ schedPc = "done" /\ numArticles >= 3
  /\ reversed /\ lastSettled = 1
  /\ \E k \in 1..numArticles : allResults[k].flag

----------------------------------------------------------------------------
(* Properties of the relevance / extract / evaluate graph, checked under
   SpecCycle *)

Finished == cyNode = "__end__"

FailedExtract(k) == extractLog[k].outcome \in {"throws", "noToolCall", "invalid"}

NeverComplete ==
  /\ verdictLog # <<>>
  /\ \A k \in 1..Len(verdictLog) : ~verdictLog[k].isComplete

FirstVerdictComplete ==
  /\ Len(verdictLog) = 1
  /\ verdictLog[1].by = "tool" /\ verdictLog[1].isComplete

\* C3 as stated: with every verdict incomplete, a relevant item's cycle makes
\* exactly 3 extraction calls before it terminates.
C3_ThreeExtractCalls ==
  (Finished /\ isRelevant /\ NeverComplete) => Len(extractLog) = 3

\* C3, amended: with every verdict incomplete, a relevant item's cycle makes
\* exactly 2 extraction calls (1 initial + 1 regenerate) before it terminates.
C3_TwoExtractCalls ==
  (Finished /\ isRelevant /\ NeverComplete) => Len(extractLog) = 2

\* a finished cycle whose evaluator answered incomplete every time
C3_Witness ==
  /\ Finished /\ isRelevant /\ NeverComplete
  /\ \A k \in 1..Len(verdictLog) : verdictLog[k].by = "tool"

\* C4: cycleCount never exceeds maxCycles, after every node of the graph.
C4_CycleCountBounded == cycleCount <= maxCycles

\* the ceiling is reached, and the graph is about to decide on it
C4_Witness == cycleCount = maxCycles /\ cyNode = "evaluatePolicyRecommendations"

\* C5: the step out of the evaluation node goes back to boundaryExtract exactly
\* when the verdict it has just stored is not complete and cycleCount is below
\* maxCycles; otherwise it goes to __end__.
C5_RegenerateIff ==
  [][cyNode = "evaluatePolicyRecommendations" =>
       /\ cyNode' \in {"boundaryExtract", "__end__"}
       /\ cyNode' = "boundaryExtract" <=>
            (~evaluationResult'.isComplete /\ cycleCount' < maxCycles)]_vars

\* the regenerate edge has been taken after an evaluator verdict
C5_Witness ==
  /\ cyNode = "boundaryExtract" /\ Len(verdictLog) = 1
  /\ verdictLog[1].by = "tool"

\* C6 as stated: a cycle whose first evaluation is complete ends with
\* cycleCount = 0, cycleCount moving only on a regenerate transition.
C6_EndsAtZero ==
  (Finished /\ isRelevant /\ FirstVerdictComplete) => cycleCount = 0

\* C6, amended: cycleCount counts the boundaryExtract steps run so far (the
\* first one included), so a cycle whose first evaluation is complete ends with
\* cycleCount = 1.
C6_CountsExtractSteps ==
  /\ cycleCount = Len(extractLog)
  /\ (Finished /\ isRelevant /\ FirstVerdictComplete) => cycleCount = 1

\* a cycle that extracted once, was evaluated complete and stopped
C6_Witness ==
  /\ Finished /\ isRelevant /\ FirstVerdictComplete
  /\ boundaryItem # NullItem

\* C7 as stated: a failed extraction is the last extraction of its cycle.
C7_NoExtractAfterFailure ==
  \A k \in 1..Len(extractLog) : FailedExtract(k) => k = Len(extractLog)

\* C7, amended: a failed extraction stores a null record; the evaluation node
\* then answers incomplete without calling the evaluator, and the cycle
\* re-enters extraction while cycleCount < maxCycles: a cycle with a failed
\* extraction ends after exactly 2 extraction calls.
C7_FailureRetriedUpToCeiling ==
  \A k \in 1..Len(extractLog) :
    FailedExtract(k) =>
      /\ extractLog[k].item = NullItem
      /\ k = Len(extractLog) /\ cyNode = "evaluatePolicyRecommendations"
           => boundaryItem = NullItem
      /\ k <= Len(verdictLog) =>
           (verdictLog[k].by = "noRecs" /\ ~verdictLog[k].isComplete)
      /\ Finished => Len(extractLog) = maxCycles

\* the first extraction threw and a second extraction was made
C7_Witness ==
  /\ Finished /\ Len(extractLog) = 2
  /\ extractLog[1].outcome = "throws"

\* C9: when the relevance call throws or returns no verdict, isRelevant is
\* false and the cycle ends without any extraction.
C9_RelevanceFailsClosed ==
  classifyOutcome \in {"throws", "noToolCall", "noVerdict"} =>
    /\ ~isRelevant
    /\ Finished
    /\ extractLog = <<>> /\ verdictLog = <<>>

\* the relevance call threw and the cycle has stopped
C9_Witness == classifyOutcome = "throws" /\ Finished

\* C10: when the evaluation call throws or returns no verdict, the stored
\* verdict is complete with score 0.5 (5 tenths) and the cycle ends without a
\* further extraction, whatever cycleCount is.
C10_EvaluationFailsOpen ==
  (verdictLog # <<>> /\ Last(verdictLog).by \in {"throws", "noToolCall"}) =>
    /\ evaluationResult.isComplete
    /\ evaluationResult.score = 5
    /\ Finished
    /\ Len(extractLog) = Len(verdictLog)

\* the evaluation call failed below the ceiling, where an incomplete verdict
\* would have regenerated
C10_Witness ==
  /\ verdictLog # <<>> /\ Last(verdictLog).by = "throws"
  /\ cycleCount = 1 /\ Finished

\* C11: under every sequence of collaborator answers and failures the cycle
\* reaches __end__, and it never runs more than 1 + 2 * maxCycles nodes.
C11_Terminates ==
  /\ <>Finished
  /\ [](Len(nodeLog) <= 1 + 2 * maxCycles)

\* a cycle that ended after the longest run, its evaluator never complete
C11_Witness ==
  /\ Finished /\ NeverComplete
  /\ Len(nodeLog) = 1 + 2 * maxCycles

RECURSIVE ConcatSuggestions(_)
ConcatSuggestions(log) ==
  IF log = <<>> THEN <<>>
  ELSE ConcatSuggestions(SubSeq(log, 1, Len(log) - 1)) \o Last(log).suggestions

\* C12: the feedback handed to every extraction after the first is the
\* concatenation of the suggestions of all earlier evaluation steps of the
\* cycle, those of the default verdict for an empty extraction included.
C12_FeedbackAccumulates ==
  \A k \in 2..Len(extractLog) :
    extractLog[k].feedback = ConcatSuggestions(SubSeq(verdictLog, 1, k - 1))

\* C13: when the cycle ends after at least one extraction, the stored record
\* is the one the most recent extraction produced (null when that extraction
\* failed), whether or not the last verdict was complete.
C13_TerminalIsLastExtract ==
  (Finished /\ extractLog # <<>>) =>
    /\ boundaryItem = Last(extractLog).item
    /\ boundaryItem # NullItem => boundaryItem.gen = Len(extractLog)

\* two extractions produced a record each, the last verdict was incomplete
C13_Witness ==
  /\ Finished /\ Len(extractLog) = 2
  /\ extractLog[1].item # NullItem /\ extractLog[2].item # NullItem
  /\ ~evaluationResult.isComplete

\* C14: checkRelevance runs exactly once and first; boundaryExtract runs only
\* for a verdict isRelevant = true; every evaluation comes right after an
\* extraction; an item judged not relevant stops with no extraction and no
\* evaluation.
C14_NodeOrder ==
  /\ cyNode # "checkRelevance" <=> nodeLog # <<>>
  /\ \A k \in 1..Len(nodeLog) :
       /\ nodeLog[k] = "checkRelevance" <=> k = 1
       /\ nodeLog[k] = "boundaryExtract" =>
            (isRelevant /\ classifyOutcome = "relevant")
       /\ nodeLog[k] = "evaluatePolicyRecommendations" =>
            (k > 1 /\ nodeLog[k - 1] = "boundaryExtract")
  /\ cyNode = "boundaryExtract" => isRelevant
  /\ (nodeLog # <<>> /\ ~isRelevant) =>
       (Finished /\ nodeLog = <<"checkRelevance">>
          /\ extractLog = <<>> /\ verdictLog = <<>>)

\* an item judged not relevant has stopped
C14_Witness ==
  /\ Finished /\ classifyOutcome = "notRelevant"
  /\ nodeLog = <<"checkRelevance">>

\* C26: every record an extraction produces, and so every record the cycle
\* hands on to the merge stage, has a non-empty source, whatever the SOURCE
\* header of the submitted content looks like.
C26_SourceKeyNonEmpty ==
  /\ \A k \in 1..Len(extractLog) :
       extractLog[k].item # NullItem => extractLog[k].item.source # ""
  /\ boundaryItem # NullItem => boundaryItem.source # ""

----------------------------------------------------------------------------
(* Properties of the knowledge-graph queue, checked under SpecKg *)

Running == {i \in Textbooks : tasks[i] = "running"}

Unsettled == {i \in 1..data : tasks[i] \in {"queued", "running"}}

----------------------------------------------------------------------------
(* Properties of split, checked under SpecBatch *)

RECURSIVE Flatten(_)
Flatten(bs) ==
  IF bs = <<>> THEN <<>>
  ELSE Flatten(SubSeq(bs, 1, Len(bs) - 1)) \o Last(bs)

SplitOk(bs, items, size) ==
  /\ Flatten(bs) = items
  /\ \A k \in 1..Len(bs) :
       /\ Len(bs[k]) >= 1 /\ Len(bs[k]) <= size
       /\ k < Len(bs) => Len(bs[k]) = size

\* C20: for the groups of every input and every size from 1 to MaxBatchSize,
\* the batches of split, concatenated in index order, are the groups in their
\* order, every batch but the last has size groups and the last has 1..size;
\* the batches prepareBatches stores are those of split at BATCH_SIZE.
C20_SplitPartitions ==
  LET groups == ContentSourceGroups(retrievedContents)
  IN /\ \A size \in 1..MaxBatchSize : SplitOk(split(groups, size), groups, size)
     /\ batchNode # "prepareBatches" =>
          /\ contentBatches = split(groups, BATCH_SIZE)
          /\ SplitOk(contentBatches, groups, BATCH_SIZE)
          /\ processLog = <<>> =>
               currentBatchIndex = (IF groups = <<>> THEN -1 ELSE 0)

\* prepareBatches stored three batches, the last one shorter than BATCH_SIZE
C20_Witness ==
  /\ batchNode = "processBatch" /\ processLog = <<>>
  /\ Len(contentBatches) >= 3
  /\ Len(Last(contentBatches)) < BATCH_SIZE

----------------------------------------------------------------------------
(* Properties of batchExtractArticles, checked under SpecRetry *)

\* C15: for one article the retry loop calls extractArticleInfo, and with it
\* the remote graph, at most MAX_RETRIES times, whatever the calls answer.
C15_AtMostMaxRetriesCalls ==
  \A a \in Articles :
    /\ rtAttempts[a] <= MAX_RETRIES
    /\ rtRetries[a] <= MAX_RETRIES

\* a run that returned with an article whose every call to the remote graph threw
C15_Witness ==
  /\ rtMain = "returned"
  /\ \E a \in Articles :
       rtPc[a] = "done" /\ rtAttempts[a] >= 1 /\ rtAllThrew[a]

\* C16: an article for which the remote graph answered with a malformed
\* response gets no second call: the one call is its only call, and a second
\* call is only ever made after a call that threw.
C16_MalformedNotRetried ==
  \A a \in Articles :
    /\ rtMalformed[a] => (rtAttempts[a] = 1 /\ rtPc[a] = "done")
    /\ rtAttempts[a] > 1 => rtRetries[a] >= 1

\* a run that returned with an article whose call answered malformed
C16_Witness ==
  /\ rtMain = "returned"
  /\ \E a \in Articles :
       /\ rtMalformed[a] /\ rtAttempts[a] = 1
       /\ rtResult[a] = "Error during processing"

\* C8: an article for which the extract collaborator throws on every call is
\* called 3 times and then gets the record tagged 'Error during extraction';
\* the run still returns one record per article.
C8_ThreeCallsThenSentinel ==
  /\ \A a \in Articles :
       (rtPc[a] = "done" /\ rtAttempts[a] > 0 /\ rtAllThrew[a]) =>
         /\ rtAttempts[a] = MAX_RETRIES
         /\ rtResult[a] = "Error during extraction"
  /\ rtMain = "returned" => Len(results) = rtLen

----------------------------------------------------------------------------
(* Properties of the merge agent graph, checked under SpecMerge *)

\* mergeBySource has returned and its channel write has been applied
MergeReturned == mgNode \in {"addSpatialTags", "formatOutput", "__end__"}

\* the positions of the filtered items whose source is s
PositionsOf(s) == {k \in 1..Len(filteredItems) : filteredItems[k].source = s}

\* the positions of the merged records whose source is s
RecordsOf(s) == {j \in 1..Len(mergedResults) : mergedResults[j].source = s}

\* C22: once mergeBySource has returned, the merged results hold exactly one
\* record for every source present among the items it was given and none for
\* any other source, and an item that is alone with its source is among the
\* merged results unchanged.
C22_OneRecordPerSourceKey ==
  MergeReturned =>
    /\ \A s \in MergeSources :
         Cardinality(RecordsOf(s)) = (IF PositionsOf(s) = {} THEN 0 ELSE 1)
    /\ \A k \in 1..Len(filteredItems) :
         PositionsOf(filteredItems[k].source) = {k}
           => \E j \in 1..Len(mergedResults) : mergedResults[j] = filteredItems[k]

\* C23: a failing merge call (an exception, or a response without merged
\* record) loses nothing: mergeBySource still returns, and every item it was
\* given is represented in some record of the merged results.
C23_NoItemDroppedOnMergeFailure ==
  /\ mgThrewIn # "mergeBySource"
  /\ MergeReturned =>
       \A k \in 1..Len(filteredItems) :
         \E j \in 1..Len(mergedResults) :
           \E m \in 1..Len(mergedResults[j].ids) :
             mergedResults[j].ids[m] = filteredItems[k].ids[1]

TaggedPositions ==
  {k \in 1..Len(mergedResults) : tagCalls[k] \notin {"noToolCall", "throws"}}

C30_ItemErrorsAbsorbed ==
  ~(mgNode = "failed" /\ mgThrewIn = "filterNonChineseLocations")

----------------------------------------------------------------------------
(* Properties of searchExpandAndMerge, checked under SpecPipe *)

\* C21 as stated: the merge stage works in batches of 5 in an ordinary run and
\* of 10 in large-dataset mode (more than 15 items): no merge call carries
\* more items than that.
C21_BatchSizeFiveOrTen ==
  \A k \in 1..Len(mergeInputs) :
    Len(mergeInputs[k]) <= (IF Len(allBoundaryData) > 15 THEN 10 ELSE 5)

\* C21 as amended: with at most 15 items nothing is split and a merge call
\* carries all items; with more than 15 items the items are cut into
\* consecutive batches of 10, the last one holding the rest (20 items: 10 and
\* 10), and every merge call carries one of these batches.
C21_OneCallOrBatchesOfTen ==
  LET n == Len(allBoundaryData)
      nb == Len(mbBatches)
  IN /\ n <= 15 =>
          /\ mbBatches = <<>>
          /\ Len(mergeInputs) <= 1
          /\ \A k \in 1..Len(mergeInputs) : mergeInputs[k] = allBoundaryData
     /\ n > 15 =>
          /\ nb = (n + 9) \div 10
          /\ \A b \in 1..nb :
               /\ Len(mbBatches[b]) = (IF b < nb THEN 10 ELSE n - 10 * (nb - 1))
               /\ \A m \in 1..Len(mbBatches[b]) :
                    mbBatches[b][m] = allBoundaryData[10 * (b - 1) + m]
          /\ \A k \in 1..Len(mergeInputs) :
               \E b \in k..nb : mergeInputs[k] = mbBatches[b]
     /\ n = 20 => nb = 2 /\ Len(mbBatches[1]) = 10 /\ Len(mbBatches[2]) = 10

\* a finished run over 20 items: two batches of 10, both sent
C21_Witness ==
  /\ pipePc = "returned" /\ Len(allBoundaryData) = 20
  /\ Len(mbBatches) = 2 /\ Len(mergeInputs) = 2
  /\ Len(mergeInputs[1]) = 10 /\ Len(mergeInputs[2]) = 10

\* the place in the collected data of the item with this id
PositionOfId(id) ==
  CHOOSE i \in 1..Len(allBoundaryData) : allBoundaryData[i].ids = <<id>>

\* C24: when the merge ran in batches, the returned result holds at most one
\* record for a source, and that record comes from the first batch in which
\* the source occurs.
C24_FirstSeenWinsDedup ==
  (pipePc = "returned" /\ Len(mbBatches) >= 2) =>
    \A s \in MergeSources :
      LET recs == {j \in 1..Len(parsedResults) : parsedResults[j].source = s}
          firstId == CHOOSE i \in 1..Len(allBoundaryData) :
                       /\ allBoundaryData[i].source = s
                       /\ \A l \in 1..(i - 1) : allBoundaryData[l].source # s
      IN /\ Cardinality(recs) <= 1
         /\ \A j \in recs :
              PositionOfId(parsedResults[j].ids[1])
                <= 10 * (((firstId - 1) \div 10) + 1)

\* the merge stage has begun: mergeBoundaryData runs, the data has been split
\* or a merge call has been sent
MergeStageBegun ==
  \/ pipePc \in {"mergeBoundaryData", "mergeInBatches"}
  \/ mbBatches # <<>> \/ mergeInputs # <<>> \/ mergeInFlight > 0

\* C28: when the merge stage has begun, every search task of the run has
\* settled: none is waiting in the queue and none is running.
C28_MergeAfterAllSearchesSettled ==
  MergeStageBegun =>
    \A j \in Journals : searchTasks[j] \in {"success", "failure"}

\* a batch call in flight after a run in which one search failed
C28_Witness ==
  /\ pipePc = "mergeInBatches" /\ mergeInFlight = 1
  /\ \E j \in Journals : searchTasks[j] = "failure"
  /\ \A j \in Journals : searchTasks[j] \in {"success", "failure"}

\* C29: the merge calls in flight never exceed the limit of the search queue;
\* the batches are sent one after the other, so there is never more than one.
C29_MergeCallsWithinLimit ==
  /\ mergeInFlight <= SearchConcurrency
  /\ mergeInFlight <= 1

\* the call of the second batch in flight, the first batch done
C29_Witness ==
  /\ pipePc = "mergeInBatches" /\ batchStarted = 2 /\ batchSettled = 1
  /\ mergeInFlight = 1

----------------------------------------------------------------------------
(* Further properties of the relevance / extract / evaluate graph,         *)
(* checked under SpecCycle                                                 *)

\* a regenerate extraction that failed after an extraction that produced a
\* record: the positions k of such earlier records in extractLog
LostRecords ==
  {k \in 1..(Len(extractLog) - 1) :
     extractLog[k].item # NullItem /\ Last(extractLog).item = NullItem}

\* the records that can be read back from the messages channel
RecordsInMessages ==
  {messages[m].json : m \in {x \in 1..Len(messages) : messages[x].json # NullItem}}

\* C34 as stated: when the cycle has ended and its last extraction failed or
\* returned no record after an earlier extraction produced one, the stored
\* record is null and nothing in the terminal state holds the earlier record.
C34_EarlierRecordNotRecoverable ==
  Finished =>
    \A k \in LostRecords :
      /\ boundaryItem = NullItem
      /\ extractLog[k].item \notin RecordsInMessages

\* C34 as amended: in that case the stored record is null, and the earlier
\* record is still in the terminal state in one place only, as the content
\* of the message its extraction appended to the messages channel.
C34_EarlierRecordOnlyInMessages ==
  Finished =>
    \A k \in LostRecords :
      /\ boundaryItem = NullItem
      /\ extractLog[k].item \in RecordsInMessages
      /\ messages[k + 1].json = extractLog[k].item

\* a first extraction with recommendations, judged incomplete, and a second
\* extraction that threw
C34_Witness ==
  /\ Finished /\ Len(extractLog) = 2
  /\ extractLog[1].outcome = "okRecs" /\ extractLog[2].outcome = "throws"
  /\ boundaryItem = NullItem

----------------------------------------------------------------------------
(* Further properties of batchExtractArticles, checked under SpecRetry *)

\* the sub-batch an article belongs to, counted from 0
SubBatchOf(a) == (a - 1) \div 5

\* C35: the returned list holds exactly one record per input article, in
\* input order; an article with the server-error marker is never sent to the
\* extract collaborator and its record is tagged 'Skipped due to server
\* error'; and no article of a later sub-batch is started while an article of
\* an earlier sub-batch has not settled.
C35_OneRecordEachSkipAndBarrier ==
  /\ rtMain = "returned" =>
       /\ Len(results) = rtLen
       /\ \A k \in 1..Len(results) : results[k].id = k
       /\ \A k \in 1..Len(results) :
            rtServerError[k] <=> results[k].tag = "Skipped due to server error"
  /\ \A a \in 1..rtLen :
       rtServerError[a] =>
         /\ rtAttempts[a] = 0 /\ rtPc[a] # "calling"
         /\ rtResult[a] \in {"none", "Skipped due to server error"}
  /\ \A b \in 1..rtLen :
       (rtPc[b] # "waiting" \/ rtAttempts[b] > 0) =>
         \A a \in 1..(5 * SubBatchOf(b)) : rtPc[a] = "done"

\* six articles, the second with the marker, the sixth extracted in the
\* second sub-batch, all six returned
C35_Witness ==
  /\ rtMain = "returned" /\ rtLen = 6 /\ Len(results) = 6
  /\ rtServerError[2] /\ results[2].tag = "Skipped due to server error"
  /\ rtAttempts[6] > 0 /\ rtAttempts[1] > 0

----------------------------------------------------------------------------
(* Further properties of the merge agent graph, checked under SpecMerge *)

\* C32: when mergeBySource has returned, a record it produced by merging a
\* group, given to mergeBySource again as the only item, comes back equal to
\* itself, and no merge call is made for it, whatever the merge chain would
\* answer.
C32_MergeIdempotent ==
  mgNode = "addSpatialTags" =>
    \A j \in 1..Len(mergedResults) :
      Len(mergedResults[j].ids) > 1 =>
        \A o \in [MergeSources -> MergeOutcomes] :
          LET r == mergedResults[j]
              again == mergeLoop(<<r>>, SourceKeys(<<r>>), o)
          IN /\ again.merged = <<r>>
             /\ again.calls = <<>>
             /\ ~again.threw

\* mergeBySource returned a record merged from the three items of one source
C32_Witness ==
  /\ mgNode = "addSpatialTags"
  /\ \E j \in 1..Len(mergedResults) :
       mergedResults[j].ids = <<1, 2, 3>> /\ mergedResults[j].source = "A"

----------------------------------------------------------------------------
(* Properties of the batch loop of the search agent, checked under         *)
(* SpecBatch                                                               *)

\* the results of the first n processBatch runs, one after the other
RECURSIVE FoundUpTo(_)
FoundUpTo(n) ==
  IF n = 0 THEN <<>> ELSE FoundUpTo(n - 1) \o processLog[n].found

\* C33: processBatch runs once per batch in increasing index, the index it
\* sees is always one of a batch; a run whose extraction threw adds nothing
\* and the next run has the next index; mergeResults runs at most once,
\* only after every batch has been processed, and the message it appends
\* holds the results of all runs in batch order; a finished graph has run it.
C33_BatchLoopOncePerBatchInOrder ==
  /\ \A k \in 1..Len(processLog) :
       /\ processLog[k].index = k - 1
       /\ processLog[k].index \in 0..(Len(contentBatches) - 1)
       /\ processLog[k].outcome = "throws" => processLog[k].found = <<>>
  /\ batchNode = "processBatch" =>
       currentBatchIndex \in 0..(Len(contentBatches) - 1)
  /\ mergeRuns <= 1
  /\ (mergeRuns = 1 \/ batchNode = "mergeResults") =>
       Len(processLog) = Len(contentBatches)
  /\ mergeRuns = 1 =>
       /\ finalMessage.items = FoundUpTo(Len(processLog))
       /\ finalMessage.found = (finalMessage.items # <<>>)
  /\ batchNode = "__end__" <=> mergeRuns = 1

\* three batches, the extraction of the second threw, the results of the
\* first and the third merged
C33_Witness ==
  /\ batchNode = "__end__" /\ Len(contentBatches) = 3 /\ Len(processLog) = 3
  /\ processLog[1].outcome = "items" /\ processLog[2].outcome = "throws"
  /\ processLog[3].outcome = "items"
  /\ Len(finalMessage.items) = 4

----------------------------------------------------------------------------
(* Properties of the answer / evaluate graph of the elle agent, checked    *)
(* under SpecElle                                                          *)

\* C36: the answer / evaluate loop has no ceiling of its own: every score
\* but the last one returned is at most 90, the graph is at its end exactly
\* when the last score returned is above 90, after every evaluation that
\* scored at most 90 getAnswer is the next node and its next run is the
\* round after, and while no score above 90 was returned the graph is not
\* at its end, however many evaluations there were.
C36_NoCeilingEndsOnlyAbove90 ==
  /\ \A k \in 1..(Len(scoreLog) - 1) : scoreLog[k] <= 90
  /\ elleNode = "__end__" <=> (scoreLog # <<>> /\ Last(scoreLog) > 90)
  /\ (\A k \in 1..Len(scoreLog) : scoreLog[k] <= 90) => elleNode # "__end__"
  /\ (scoreLog # <<>> /\ Last(scoreLog) <= 90) =>
       /\ score = Last(scoreLog)
       /\ elleNode \in {"getAnswer", "evaluateAnswer", "failed"}
  /\ elleNode = "evaluateAnswer" =>
       answers # <<>> /\ Last(answers).round = Len(scoreLog) + 1

\* MaxRounds evaluations, none above 90 and one of exactly 90: getAnswer is
\* next once more
C36_Witness ==
  /\ Len(scoreLog) = MaxRounds /\ elleNode = "getAnswer"
  /\ \A k \in 1..Len(scoreLog) : scoreLog[k] <= 90
  /\ Last(scoreLog) = 90

----------------------------------------------------------------------------
(* Properties of the evaluation batch runner, checked under SpecEval       *)

\* C37: the results array holds the fulfilled evaluations in the order they
\* settled, whatever their place in the input; the file is written exactly
\* when main got past Promise.all, and then it holds every item in settling
\* order; once an evaluation threw main is rejected and the file is never
\* written, whatever the results array holds.
C37_CompletionOrderAndAllLostOnThrow ==
  /\ evalResults =
       SelectSeq(evalSettled, LAMBDA i : evalTasks[i] = "fulfilled")
  /\ outFile.written <=> evalMain = "written"
  /\ outFile.written =>
       outFile.content = evalSettled /\ Len(evalSettled) = evalData
  /\ (\E i \in Questions : evalTasks[i] = "rejected") <=> evalMain = "rejected"
  /\ evalMain = "rejected" => outFile = NoFile

\* every evaluation settled, one threw, the others were pushed against the
\* input order: no file
C37_Witness ==
  /\ evalMain = "rejected" /\ Len(evalSettled) = evalData
  /\ Len(evalResults) >= 2 /\ evalResults[1] > evalResults[2]
  /\ outFile = NoFile

----------------------------------------------------------------------------
(* Further properties of searchExpandAndMerge, checked under SpecPipe      *)

\* the ids of the items the successful searches hold
FoundIds ==
  UNION {{searchFound[j][k].ids[1] : k \in 1..Len(searchFound[j])} :
           j \in {x \in Journals : searchTasks[x] = "success"}}

\* what the calls of the merge graph logged so far make of the first b
\* batches
RECURSIVE MergedUpTo(_)
MergedUpTo(b) ==
  IF b = 0 THEN <<>>
  ELSE MergedUpTo(b - 1) \o CallResult(mergeLog[b], mbBatches[b])

\* C31: the collected items and the merged output are fixed by the inputs in
\* their order and the collaborators' responses, not by the order in which
\* the searches settled: once the searches are collected, the collected
\* items are those of the successful searches, each once, in journal order
\* and within a journal in the order of its result; the returned output is
\* what the logged response of every merge call makes of its batch, put
\* together in batch order.
C31_OutputFixedByResponses ==
  /\ pipePc \notin {"start", "awaitSearch"} =>
       /\ {allBoundaryData[i].ids[1] : i \in 1..Len(allBoundaryData)} = FoundIds
       /\ \A i \in 1..Len(allBoundaryData) :
            /\ Len(allBoundaryData[i].ids) = 1
            /\ \A l \in (i + 1)..Len(allBoundaryData) :
                 allBoundaryData[i].ids[1] < allBoundaryData[l].ids[1]
            /\ \E j \in Journals :
                 \E k \in 1..Len(searchFound[j]) :
                   allBoundaryData[i] = searchFound[j][k]
  /\ pipePc = "returned" =>
       parsedResults =
         (IF allBoundaryData = <<>> THEN <<>>
          ELSE IF mbBatches = <<>> THEN CallResult(mergeLog[1], allBoundaryData)
          ELSE MergedUpTo(Len(mbBatches)))
  /\ Len(mergeLog) = batchSettled + (IF mbBatches = <<>> /\ pipePc = "returned"
                                         /\ allBoundaryData # <<>> THEN 1 ELSE 0)

\* the search of the last journal settled with items before the search of
\* the journal before it did, the run returned what two batches were merged to
C31_Witness ==
  /\ pipePc = "returned" /\ foundOrder = <<NumJournals, NumJournals - 1>>
  /\ Len(mbBatches) = 2 /\ mergeLog = <<"merged", "merged">>
  /\ parsedResults # <<>>

====
